---- MODULE Spec2Model ----
(***************************************************************************)
(* Pi-hole AI Analyzer: the incremental-batch analysis cycle of main.py    *)
(* with its collaborators (pihole_client, ai_analyzer, storage_manager,    *)
(* notification_manager), modelled as a state machine.                     *)
(*                                                                         *)
(* One process invocation (main.py __main__) checks the configuration and  *)
(* runs exactly one run_analysis_cycle().  The persisted state the cycle   *)
(* starts from (watermark file, findings database) is whatever earlier     *)
(* invocations left behind, so Init ranges over every such state.          *)
(*                                                                         *)
(* Timestamps are floats in the source.  They are modelled as the integers *)
(* 1..MaxTime; str(x) followed by float(...) is exact in Python, so the    *)
(* watermark file is modelled by the number it holds, or by the facts that *)
(* it is absent or does not parse.                                         *)
(***************************************************************************)
EXTENDS Integers, Sequences, FiniteSets, TLC

\* ---------------------------------------------------------------- bounds
\* Largest query timestamp (timestamps are 1..MaxTime; 0 stands for a
\* missing / falsy "time" field of a raw record).
MaxTime == 2
\* Longest raw batch the log source returns.
MaxBatch == 2
\* Longest list the classifier replies with.
MaxReply == 2
\* Most things that go wrong in one run: collaborator failures (an error of
\* the database, login, watermark read or write, fetch, classifier call,
\* insert, mail delivery) and missing optional settings (classifier, SMTP).
MaxFaults == 1

\* ------------------------------------------------------------ vocabulary
Domains == {"a.com", "b.com"}
\* A domain the classifier invents: never part of a fetched batch.
Hallucinated == "x.com"
\* The raw record has no (or an empty) "domain" / the item has no "domain" key.
NoDomain == "<none>"
ClientIps == {"10.0.0.1", "10.0.0.2"}
\* A category label that is not a string (a JSON number inside the list).
NonStringLabel == "<number>"
\* reason used when the item has no "reason" key (main.py line 208).
DefaultReason == "AI analysis result."
NoReason == "<absent>"

\* Optional values (Python None against a value).
None == [some |-> FALSE, v |-> <<>>]
Some(x) == [some |-> TRUE, v |-> x]

Max2(a, b) == IF a >= b THEN a ELSE b

RECURSIVE SeqMaxTs(_)
\* max(q['timestamp'] for q in qs), 0 for the empty sequence (never asked for)
SeqMaxTs(qs) ==
    IF qs = <<>> THEN 0
    ELSE Max2(Head(qs).timestamp, SeqMaxTs(Tail(qs)))

\* Sequences over S of length at most n.
SeqsUpTo(S, n) == UNION {[1..k -> S] : k \in 0..n}

\* ------------------------------------------------------------------ state
VARIABLES
    config,            \* config.py: which settings are present (truthy)
    model,             \* ai_analyzer.model: TRUE = configured, FALSE = None
    last_check_file,   \* last_check.txt, the watermark record
    db_schema,         \* findings.db: TRUE once the findings table exists
    findings,          \* rows of the findings table, in insertion order
    outbox,            \* digests handed to the SMTP server, in order
    pc,                \* position of the process: start, exit1, crashed, done
    cycle,             \* what the cycle did: its locals and collaborator calls
    adapter,           \* a call of analyze_dns_batch on its own: arguments, result
    pihole_log,        \* the Pi-hole's query log, as /api/queries returns it
    invocations,       \* overlapping runs of the process: position and locals
    previous           \* the record of the run before this one, when there was one

vars == <<config, model, last_check_file, db_schema, findings, outbox, pc, cycle,
          adapter, pihole_log, invocations, previous>>

\* -------------------------------------------------- watermark record (file)
FileAbsent == [kind |-> "absent", val |-> 0]
\* content float() rejects; an empty file is one such content
FileMalformed == [kind |-> "malformed", val |-> 0]
FileValid(t) == [kind |-> "valid", val |-> t]
FileStates == {FileAbsent, FileMalformed} \cup {FileValid(t) : t \in 1..MaxTime}

\* The watermark value the record holds: 0.0 when absent or malformed.
WatermarkValue(f) == IF f.kind = "valid" THEN f.val ELSE 0

\* Outcomes of reading the file: "ok", or "error" for any exception other
\* than FileNotFoundError / ValueError (the file is there and well formed
\* but open() or read() raises).
ReadOutcomes(f) == IF f.kind = "valid" THEN {"ok", "error"} ELSE {"ok"}

load_last_check_timestamp(f, outcome) ==
    IF f.kind = "absent" THEN 0           \* FileNotFoundError
    ELSE IF outcome = "error" THEN 0      \* except Exception
    ELSE IF f.kind = "malformed" THEN 0   \* ValueError from float()
    ELSE f.val

\* Outcomes of writing the file: "ok"; "open_failed" when open(..., 'w')
\* raises and the file is left as it was; "truncated" when open() has
\* truncated the file and write()/close() then raises.
WriteOutcomes == {"ok", "open_failed", "truncated"}

save_last_check_timestamp(f, timestamp, outcome) ==
    IF outcome = "ok" THEN FileValid(timestamp)
    ELSE IF outcome = "truncated" THEN FileMalformed
    ELSE f

\* ------------------------------------------------------------ pihole_client
ValidRaw == [time : 1..MaxTime, domain : Domains, ip : ClientIps]
\* two records the normalizer drops: no time, no domain
BadRaw == {[time |-> 0, domain |-> "a.com", ip |-> "10.0.0.1"],
           [time |-> 1, domain |-> NoDomain, ip |-> "10.0.0.1"]}
RawRecords == ValidRaw \cup BadRaw

\* What the HTTP GET of /api/queries produces: a failure (connection error,
\* HTTP error, not JSON, not a dict, no "queries" key) or the raw records.
FetchResponses == {None} \cup {Some(b) : b \in SeqsUpTo(RawRecords, MaxBatch)}

processed_query(query) ==
    [timestamp |-> query.time, domain |-> query.domain, client_ip |-> query.ip]

RECURSIVE processed_queries_StopsAtBad(_)
\* Variant of the loop that ends at the first record it would skip.
processed_queries_StopsAtBad(raw) ==
    IF raw = <<>> THEN <<>>
    ELSE LET q == processed_query(Head(raw))
         IN  IF q.domain # NoDomain /\ q.timestamp # 0
             THEN <<q>> \o processed_queries_StopsAtBad(Tail(raw))
             ELSE <<>>

RECURSIVE processed_queries(_)
\* the loop of get_recent_queries: keep a record iff domain and timestamp
\* are both truthy, in input order
processed_queries(raw) ==
    IF raw = <<>> THEN <<>>
    ELSE LET q == processed_query(Head(raw))
             rest == processed_queries(Tail(raw))
         IN  IF q.domain # NoDomain /\ q.timestamp # 0
             THEN <<q>> \o rest
             ELSE rest

authenticate(cfg, outcome) ==
    IF ~cfg.PIHOLE_BASE_URL \/ ~cfg.PIHOLE_PASSWORD THEN FALSE
    ELSE outcome

\* delete_session(sid): DELETE /api/auth; the session is closed when the
\* request succeeds, every failure is logged and the session stays open.
\* (Defined by pihole_client; run_analysis_cycle never calls it.)
delete_session(session_open, outcome) ==
    IF outcome THEN FALSE ELSE session_open

get_recent_queries(sid, cfg, response) ==
    IF ~sid THEN None
    ELSE IF ~cfg.PIHOLE_BASE_URL THEN None
    ELSE IF ~response.some THEN None
    ELSE Some(processed_queries(response.v))

\* -------------------------------------------------------------- ai_analyzer
\* The value of an item's "categories" key: absent, a list of labels, or a
\* truthy value that is not a list (a JSON number).
CatsAbsent == [kind |-> "absent", labels |-> <<>>]
CatsList(l) == [kind |-> "list", labels |-> l]
CatsNumber == [kind |-> "number", labels |-> <<>>]

\* One element of the JSON list the classifier returns.  is_dict = FALSE is
\* an element that is not an object (a number, a string).
ObjectItem(d, c, r) == [is_dict |-> TRUE, domain |-> d, categories |-> c, reason |-> r]
ScalarItem == [is_dict |-> FALSE, domain |-> NoDomain, categories |-> CatsAbsent, reason |-> NoReason]

CategoryValues ==
    {CatsAbsent, CatsNumber, CatsList(<<>>), CatsList(<<"">>), CatsList(<<"Dating">>),
     CatsList(<<"Dating", "Gambling">>), CatsList(<<NonStringLabel>>)}

ReplyItems ==
    {ObjectItem("a.com", c, "tracker") : c \in CategoryValues}
    \cup {ObjectItem("b.com", CatsList(<<"Gambling">>), NoReason),
          ObjectItem(Hallucinated, CatsList(<<"Malicious">>), "malware"),
          ObjectItem(NoDomain, CatsList(<<"Malicious">>), "malware"),
          ScalarItem}

\* What model.generate_content(prompt) followed by response.text produces:
\* "raise" (the call or .text raises), "not_json" (json.loads raises),
\* "not_list" (valid JSON of another type), or "list" with its elements.
Reply(k, items) == [kind |-> k, items |-> items]
Replies ==
    {Reply(k, <<>>) : k \in {"raise", "not_json", "not_list"}}
    \cup {Reply("list", l) : l \in SeqsUpTo(ReplyItems, MaxReply)}

\* Variant without the isinstance(analysis_results, list) check: a parsed
\* object is returned as it is (iterating it yields its keys, strings).
analyze_dns_batch_NoListCheck(mdl, dns_query_list, reply) ==
    IF ~mdl THEN [result |-> None, invoked |-> FALSE]
    ELSE IF dns_query_list = <<>> THEN [result |-> Some(<<>>), invoked |-> FALSE]
    ELSE IF {dns_query_list[i].domain : i \in 1..Len(dns_query_list)} \ {NoDomain} = {}
         THEN [result |-> Some(<<>>), invoked |-> FALSE]
    ELSE IF reply.kind = "list" THEN [result |-> Some(reply.items), invoked |-> TRUE]
    ELSE IF reply.kind = "not_list" THEN [result |-> Some(<<ScalarItem>>), invoked |-> TRUE]
    ELSE [result |-> None, invoked |-> TRUE]

\* Variant without the two early returns for an empty input (lines 52-54 and
\* 58-60): the service is called whatever the list holds.
analyze_dns_batch_NoEmptyChecks(mdl, dns_query_list, reply) ==
    IF ~mdl THEN [result |-> None, invoked |-> FALSE]
    ELSE IF reply.kind = "list" THEN [result |-> Some(reply.items), invoked |-> TRUE]
    ELSE [result |-> None, invoked |-> TRUE]

\* analyze_dns_batch: result is None or the parsed list; invoked tells
\* whether the external service was called.
analyze_dns_batch(mdl, dns_query_list, reply) ==
    IF ~mdl THEN [result |-> None, invoked |-> FALSE]
    ELSE IF dns_query_list = <<>> THEN [result |-> Some(<<>>), invoked |-> FALSE]
    ELSE IF {dns_query_list[i].domain : i \in 1..Len(dns_query_list)} \ {NoDomain} = {}
         THEN [result |-> Some(<<>>), invoked |-> FALSE]
    ELSE IF reply.kind = "list" THEN [result |-> Some(reply.items), invoked |-> TRUE]
    ELSE [result |-> None, invoked |-> TRUE]

\* ---- the reply text (lines 116-146)
\* response.text is a sequence of characters.  The JSON read here is the
\* fragment the replies below are written in: numbers written with the digit
\* 1, the empty object, and lists of these.
Whitespace == {" ", "\n"}
\* the backtick character
Backtick == "<backtick>"
Fence == <<Backtick, Backtick, Backtick>>
FenceJson == Fence \o <<"j", "s", "o", "n">>

RECURSIVE LStrip(_)
LStrip(s) == IF s # <<>> /\ Head(s) \in Whitespace THEN LStrip(Tail(s)) ELSE s

RECURSIVE RStrip(_)
RStrip(s) ==
    IF s # <<>> /\ s[Len(s)] \in Whitespace THEN RStrip(SubSeq(s, 1, Len(s) - 1)) ELSE s

\* str.strip()
Strip(s) == RStrip(LStrip(s))

StartsWith(s, prefix) ==
    Len(s) >= Len(prefix) /\ SubSeq(s, 1, Len(prefix)) = prefix
EndsWith(s, suffix) ==
    Len(s) >= Len(suffix) /\ SubSeq(s, Len(s) - Len(suffix) + 1, Len(s)) = suffix

\* lines 118-126: strip, drop a leading fence with the tag json, drop a
\* leading fence, drop a trailing fence, strip
clean_response_text(text) ==
    LET t0 == Strip(text)
        t1 == IF StartsWith(t0, FenceJson) THEN SubSeq(t0, 8, Len(t0)) ELSE t0
        t2 == IF StartsWith(t1, Fence) THEN SubSeq(t1, 4, Len(t1)) ELSE t1
        t3 == IF EndsWith(t2, Fence) THEN SubSeq(t2, 1, Len(t2) - 3) ELSE t2
    IN  Strip(t3)

EmptyObject == ObjectItem(NoDomain, CatsAbsent, NoReason)
ParseFailed == [ok |-> FALSE, item |-> ScalarItem, items |-> <<>>, rest |-> <<>>]

RECURSIVE DropDigits(_)
DropDigits(s) == IF s # <<>> /\ Head(s) = "1" THEN DropDigits(Tail(s)) ELSE s

\* a number or an empty object at the head of s
ParseScalar(s) ==
    IF s = <<>> THEN ParseFailed
    ELSE IF Head(s) = "1"
    THEN [ParseFailed EXCEPT !.ok = TRUE, !.item = ScalarItem, !.rest = DropDigits(s)]
    ELSE IF Head(s) = "{"
    THEN LET r == LStrip(Tail(s))
         IN  IF r # <<>> /\ Head(r) = "}"
             THEN [ParseFailed EXCEPT !.ok = TRUE, !.item = EmptyObject, !.rest = Tail(r)]
             ELSE ParseFailed
    ELSE ParseFailed

RECURSIVE ParseElements(_, _)
\* the elements of a non-empty list up to its closing bracket
ParseElements(s, acc) ==
    LET v == ParseScalar(LStrip(s))
        r == LStrip(v.rest)
    IN  IF ~v.ok \/ r = <<>> THEN ParseFailed
        ELSE IF Head(r) = "," THEN ParseElements(Tail(r), Append(acc, v.item))
        ELSE IF Head(r) = "]"
        THEN [ParseFailed EXCEPT !.ok = TRUE, !.items = Append(acc, v.item), !.rest = Tail(r)]
        ELSE ParseFailed

\* json.loads followed by the isinstance(..., list) check (lines 128-146)
json_loads(text) ==
    LET s == LStrip(text)
    IN  IF s = <<>> THEN Reply("not_json", <<>>)
        ELSE IF Head(s) = "["
        THEN LET r == LStrip(Tail(s))
                 l == IF r # <<>> /\ Head(r) = "]"
                      THEN [ParseFailed EXCEPT !.ok = TRUE, !.rest = Tail(r)]
                      ELSE ParseElements(r, <<>>)
             IN  IF l.ok /\ LStrip(l.rest) = <<>> THEN Reply("list", l.items)
                 ELSE Reply("not_json", <<>>)
        ELSE LET v == ParseScalar(s)
             IN  IF v.ok /\ LStrip(v.rest) = <<>> THEN Reply("not_list", <<>>)
                 ELSE Reply("not_json", <<>>)

\* what generate_content and the parsing make of a reply
parse_response(raises, text) ==
    IF raises THEN Reply("raise", <<>>) ELSE json_loads(clean_response_text(text))

\* ---------------------------------------------------------- storage_manager
\* Outcomes of initialize_database: "ok"; "makedirs_error" (os.makedirs
\* raises OSError, the function returns); "connect_error" (sqlite3.connect
\* raises: conn is unbound in the finally clause, UnboundLocalError leaves
\* the function); "sql_error" (a statement raises after the connection was
\* made: caught, connection closed).
InitDbOutcomes == {"ok", "makedirs_error", "connect_error", "sql_error"}

initialize_database(schema, outcome) ==
    [schema |-> IF outcome = "ok" THEN TRUE ELSE schema,
     raised |-> outcome = "connect_error"]

Finding(ts, ip, d, cat, r, src) ==
    [query_timestamp |-> ts, client_ip |-> ip, domain |-> d,
     category |-> cat, reason |-> r, source |-> src]

\* save_finding's return value.  db_ok = FALSE is any sqlite3 error of the
\* insert (database locked, disk error); an insert into a database without
\* the findings table fails as well.
save_finding(f, cfg, schema, db_ok) ==
    IF ~cfg.DATABASE_PATH THEN FALSE
    ELSE IF f.query_timestamp = 0 \/ f.domain = "" \/ f.category = "" \/ f.source = ""
         THEN FALSE
    ELSE IF f.source \notin {"AI", "SafeBrowsing"} THEN FALSE
    ELSE schema /\ db_ok

\* ----------------------------------------------------- notification_manager
\* cfg.SMTP: every required SMTP setting is present and the port is an int.
send_notification_email(cfg, smtp_ok) ==
    IF ~cfg.SMTP THEN FALSE ELSE smtp_ok

\* --------------------------------------------------------------------- main
NOTIFY_CATEGORIES == {"Malicious", "Illegal", "AdultContent", "Gambling", "Suspicious"}

\* The outcomes of the collaborators in one cycle (the cycle's inputs).
\* save_fail: the domains whose insert raises a sqlite3 error.
Inputs(idb, auth, rd, resp, reply, fail, smtp, wr) ==
    [init_db |-> idb, auth |-> auth, read |-> rd, fetch |-> resp,
     reply |-> reply, save_fail |-> fail, smtp_ok |-> smtp, write |-> wr]

\* The record of a cycle: locals of run_analysis_cycle and the collaborator
\* calls it made, in order.
NoCycle ==
    [path |-> "none", calls |-> <<>>,
     inp |-> Inputs("ok", TRUE, "ok", None, Reply("raise", <<>>), {}, TRUE, "ok"),
     faults |-> 0, file_before |-> FileAbsent, schema_before |-> FALSE,
     sid |-> FALSE, session_open |-> FALSE, last_check_time |-> 0,
     raw_queries |-> None,
     new_queries |-> <<>>, latest_processed_query_time |-> 0,
     domain_query_map |-> <<>>, queries_for_ai |-> <<>>, ai_invoked |-> FALSE,
     ai_analysis_results |-> None, save_attempts |-> <<>>,
     processed_domains |-> {}, findings_for_notification |-> <<>>,
     email_attempts |-> <<>>, written |-> <<>>]

\* Variant of the filter that also keeps a query whose timestamp equals the
\* watermark.
FilterNew_Inclusive(raw_queries, last_check_time) ==
    SelectSeq(raw_queries, LAMBDA q : q.timestamp # 0 /\ q.timestamp >= last_check_time)

\* Step 5: [q for q in raw_queries if q.get("timestamp") and q["timestamp"] > last_check_time]
FilterNew(raw_queries, last_check_time) ==
    SelectSeq(raw_queries, LAMBDA q : q.timestamp # 0 /\ q.timestamp > last_check_time)

MapKeys(m) == [i \in 1..Len(m) |-> m[i].domain]

\* Variant that puts a domain's newest context first.
MapAppend_Prepends(m, d, e) ==
    IF \E i \in 1..Len(m) : m[i].domain = d
    THEN [i \in 1..Len(m) |->
            IF m[i].domain = d THEN [m[i] EXCEPT !.details = <<e>> \o @] ELSE m[i]]
    ELSE Append(m, [domain |-> d, details |-> <<e>>])

MapAppend(m, d, e) ==
    IF \E i \in 1..Len(m) : m[i].domain = d
    THEN [i \in 1..Len(m) |->
            IF m[i].domain = d THEN [m[i] EXCEPT !.details = Append(@, e)] ELSE m[i]]
    ELSE Append(m, [domain |-> d, details |-> <<e>>])

RECURSIVE BuildDomainQueryMap_FirstOnly(_, _)
\* Variant that keeps only the first context of a domain.
BuildDomainQueryMap_FirstOnly(queries, m) ==
    IF queries = <<>> THEN m
    ELSE LET query == Head(queries)
         IN  IF query.domain = NoDomain \/ \E i \in 1..Len(m) : m[i].domain = query.domain
             THEN BuildDomainQueryMap_FirstOnly(Tail(queries), m)
             ELSE BuildDomainQueryMap_FirstOnly(Tail(queries),
                      MapAppend(m, query.domain,
                                [timestamp |-> query.timestamp,
                                 client_ip |-> query.client_ip]))

RECURSIVE BuildDomainQueryMap(_, _)
\* Step 6: the dict domain -> list of {timestamp, client_ip}; a Python dict
\* keeps insertion order, so the map is a sequence of entries.
BuildDomainQueryMap(queries, m) ==
    IF queries = <<>> THEN m
    ELSE LET query == Head(queries)
         IN  IF query.domain = NoDomain
             THEN BuildDomainQueryMap(Tail(queries), m)
             ELSE BuildDomainQueryMap(Tail(queries),
                      MapAppend(m, query.domain,
                                [timestamp |-> query.timestamp,
                                 client_ip |-> query.client_ip]))

\* ai_findings_map = {item['domain']: item for item in results if item.get('domain')}
InFindingsMap(results, d) ==
    \E i \in 1..Len(results) : results[i].domain = d /\ d # NoDomain

\* a later item of the same domain replaces the earlier one
FindingsMapItem(results, d) ==
    LET last == CHOOSE i \in 1..Len(results) :
                    /\ results[i].domain = d
                    /\ \A j \in (i + 1)..Len(results) : results[j].domain # d
    IN  results[last]

\* Variant without the filter `if item.get('domain')`: item['domain'] raises
\* KeyError on an object that has no domain key.
FindingsMapRaises_OnMissingDomain(results) ==
    \E i \in 1..Len(results) : ~results[i].is_dict \/ results[i].domain = NoDomain

\* item.get(...) raises AttributeError on an element that is not a dict
FindingsMapRaises(results) ==
    \E i \in 1..Len(results) : ~results[i].is_dict

\* Variant without the test `if ai_categories`.
CategoriesTruthy_Always(c) == TRUE

\* truthiness of ai_result.get('categories', [])
CategoriesTruthy(c) ==
    \/ c.kind = "number"
    \/ c.kind = "list" /\ c.labels # <<>>

\* ", ".join(ai_categories) raises TypeError on a non-iterable and on a
\* label that is not a string
JoinRaises(c) ==
    \/ c.kind = "number"
    \/ \E i \in 1..Len(c.labels) : c.labels[i] = NonStringLabel

RECURSIVE Join(_)
Join(labels) ==
    IF labels = <<>> THEN ""
    ELSE IF Len(labels) = 1 THEN labels[1]
    ELSE labels[1] \o ", " \o Join(Tail(labels))

\* Variant that asks for every label to be an alert category.
AnyNotify_All(labels) == \A i \in 1..Len(labels) : labels[i] \in NOTIFY_CATEGORIES

AnyNotify(labels) == \E i \in 1..Len(labels) : labels[i] \in NOTIFY_CATEGORIES

\* The state a cycle works on: the persisted state, its position and its record.
Begin(file, schema, rows, sent, faults) ==
    [file |-> file, schema |-> schema, findings |-> rows, outbox |-> sent,
     pc |-> "running",
     cycle |-> [NoCycle EXCEPT !.path = "running", !.faults = faults,
                               !.file_before = file, !.schema_before = schema]]

Fault(failed) == IF failed THEN 1 ELSE 0

\* The runs of the process that may overlap in time, none of them started.
Invocations == {1, 2}
NoInvocation == [at |-> "start", st |-> Begin(FileAbsent, FALSE, <<>>, <<>>, 0)]
NoInvocations == [i \in Invocations |-> NoInvocation]

\* 1. Initialize Database
Step1_InitializeDatabase(st, init_db) ==
    LET r == initialize_database(st.schema, init_db)
    IN  [st EXCEPT !.schema = r.schema,
                   !.cycle.inp.init_db = init_db,
                   !.cycle.faults = @ + Fault(init_db # "ok"),
                   !.cycle.calls = Append(@, "initialize_database"),
                   !.cycle.path = IF r.raised THEN "init_db_raised" ELSE @,
                   !.pc = IF r.raised THEN "crashed" ELSE @]

\* Variant of step 2 without the return of lines 90-92: a failed login goes on.
Step2_Authenticate_GoesOn(st, cfg, auth) ==
    IF st.pc # "running" THEN st
    ELSE LET sid == authenticate(cfg, auth)
         IN  [st EXCEPT !.cycle.sid = sid,
                        !.cycle.session_open = sid,
                        !.cycle.inp.auth = auth,
                        !.cycle.faults = @ + Fault(~auth),
                        !.cycle.calls = Append(@, "authenticate")]

\* 2. Authenticate with Pi-hole
Step2_Authenticate(st, cfg, auth) ==
    IF st.pc # "running" THEN st
    ELSE LET sid == authenticate(cfg, auth)
         IN  [st EXCEPT !.cycle.sid = sid,
                        !.cycle.session_open = sid,
                        !.cycle.inp.auth = auth,
                        !.cycle.faults = @ + Fault(~auth),
                        !.cycle.calls = Append(@, "authenticate"),
                        !.cycle.path = IF sid THEN @ ELSE "auth_failed",
                        !.pc = IF sid THEN @ ELSE "done"]

\* Variant of step 3 that ends the cycle when the watermark record is
\* missing, malformed or unreadable.
Step3_LoadTimestamp_AbortsOnBadRecord(st, read) ==
    IF st.pc # "running" THEN st
    ELSE LET bad == st.file.kind # "valid" \/ read = "error"
         IN  [st EXCEPT !.cycle.last_check_time = load_last_check_timestamp(st.file, read),
                        !.cycle.inp.read = read,
                        !.cycle.faults = @ + Fault(read # "ok"),
                        !.cycle.calls = Append(@, "load_last_check_timestamp"),
                        !.cycle.path = IF bad THEN "read_failed" ELSE @,
                        !.pc = IF bad THEN "done" ELSE @]

\* 3. Load Last Check Timestamp
Step3_LoadTimestamp(st, read) ==
    IF st.pc # "running" THEN st
    ELSE [st EXCEPT !.cycle.last_check_time = load_last_check_timestamp(st.file, read),
                    !.cycle.inp.read = read,
                    !.cycle.faults = @ + Fault(read # "ok"),
                    !.cycle.calls = Append(@, "load_last_check_timestamp")]

\* Variant of step 4 that takes a failed fetch for an empty batch and goes on
\* to the filter instead of returning (lines 101-103).
Step4_Fetch_FailureGoesOn(st, cfg, response) ==
    IF st.pc # "running" THEN st
    ELSE LET raw_queries == get_recent_queries(st.cycle.sid, cfg, response)
         IN  [st EXCEPT !.cycle.raw_queries = raw_queries,
                        !.cycle.inp.fetch = response,
                        !.cycle.faults = @ + Fault(~response.some),
                        !.cycle.calls = Append(@, "get_recent_queries"),
                        !.cycle.path = IF raw_queries.some /\ raw_queries.v = <<>>
                                       THEN "empty" ELSE @,
                        !.pc = IF raw_queries.some /\ raw_queries.v = <<>>
                               THEN "done" ELSE @]

\* Variant of step 4 without the return of lines 104-109: an empty batch goes
\* on to the filter.
Step4_Fetch_EmptyGoesOn(st, cfg, response) ==
    IF st.pc # "running" THEN st
    ELSE LET raw_queries == get_recent_queries(st.cycle.sid, cfg, response)
         IN  [st EXCEPT !.cycle.raw_queries = raw_queries,
                        !.cycle.inp.fetch = response,
                        !.cycle.faults = @ + Fault(~response.some),
                        !.cycle.calls = Append(@, "get_recent_queries"),
                        !.cycle.path = IF ~raw_queries.some THEN "fetch_failed" ELSE @,
                        !.pc = IF ~raw_queries.some THEN "done" ELSE @]

\* 4. Fetch Recent Queries
Step4_Fetch(st, cfg, response) ==
    IF st.pc # "running" THEN st
    ELSE LET raw_queries == get_recent_queries(st.cycle.sid, cfg, response)
         IN  [st EXCEPT !.cycle.raw_queries = raw_queries,
                        !.cycle.inp.fetch = response,
                        !.cycle.faults = @ + Fault(~response.some),
                        !.cycle.calls = Append(@, "get_recent_queries"),
                        !.cycle.path = IF ~raw_queries.some THEN "fetch_failed"
                                       ELSE IF raw_queries.v = <<>> THEN "empty"
                                       ELSE @,
                        !.pc = IF ~raw_queries.some \/ raw_queries.v = <<>>
                               THEN "done" ELSE @]

\* Variant of step 5 that writes the batch maximum and not
\* max(last_check_time, batch maximum) (line 121).
Step5_Filter_WritesBatchMax(st, write) ==
    IF st.pc # "running" THEN st
    ELSE LET raw_queries == st.cycle.raw_queries.v
             last_check_time == st.cycle.last_check_time
             new_queries == FilterNew(raw_queries, last_check_time)
             latest_query_time_in_batch ==
                 SeqMaxTs(SelectSeq(raw_queries, LAMBDA q : q.timestamp # 0))
             value == latest_query_time_in_batch
         IN  IF new_queries = <<>>
             THEN [st EXCEPT !.file = save_last_check_timestamp(@, value, write),
                             !.cycle.inp.write = write,
                             !.cycle.faults = @ + Fault(write # "ok"),
                             !.cycle.written = Append(@, value),
                             !.cycle.calls = Append(@, "save_last_check_timestamp"),
                             !.cycle.path = "no_new_work",
                             !.pc = "done"]
             ELSE [st EXCEPT !.cycle.new_queries = new_queries,
                             !.cycle.latest_processed_query_time =
                                 SeqMaxTs(SelectSeq(new_queries, LAMBDA q : q.timestamp # 0))]

\* Variant of step 5 without the return of line 123: after the write the
\* cycle goes on with no new query.
Step5_Filter_GoesOn(st, write) ==
    IF st.pc # "running" THEN st
    ELSE LET raw_queries == st.cycle.raw_queries.v
             last_check_time == st.cycle.last_check_time
             new_queries == FilterNew(raw_queries, last_check_time)
             latest_query_time_in_batch ==
                 SeqMaxTs(SelectSeq(raw_queries, LAMBDA q : q.timestamp # 0))
             value == Max2(last_check_time, latest_query_time_in_batch)
         IN  IF new_queries = <<>>
             THEN [st EXCEPT !.file = save_last_check_timestamp(@, value, write),
                             !.cycle.inp.write = write,
                             !.cycle.faults = @ + Fault(write # "ok"),
                             !.cycle.written = Append(@, value),
                             !.cycle.calls = Append(@, "save_last_check_timestamp")]
             ELSE [st EXCEPT !.cycle.new_queries = new_queries,
                             !.cycle.latest_processed_query_time =
                                 SeqMaxTs(SelectSeq(new_queries, LAMBDA q : q.timestamp # 0))]

\* Variant of step 5 that saves the watermark as soon as the new queries are
\* known, before they are classified.
Step5_Filter_WritesEarly(st, write) ==
    IF st.pc # "running" THEN st
    ELSE LET raw_queries == st.cycle.raw_queries.v
             last_check_time == st.cycle.last_check_time
             new_queries == FilterNew(raw_queries, last_check_time)
             latest_query_time_in_batch ==
                 SeqMaxTs(SelectSeq(raw_queries, LAMBDA q : q.timestamp # 0))
             value == Max2(last_check_time, latest_query_time_in_batch)
         IN  IF new_queries = <<>>
             THEN [st EXCEPT !.file = save_last_check_timestamp(@, value, write),
                             !.cycle.inp.write = write,
                             !.cycle.faults = @ + Fault(write # "ok"),
                             !.cycle.written = Append(@, value),
                             !.cycle.calls = Append(@, "save_last_check_timestamp"),
                             !.cycle.path = "no_new_work",
                             !.pc = "done"]
             ELSE [st EXCEPT !.file = save_last_check_timestamp(@, value, write),
                             !.cycle.inp.write = write,
                             !.cycle.faults = @ + Fault(write # "ok"),
                             !.cycle.written = Append(@, value),
                             !.cycle.calls = Append(@, "save_last_check_timestamp"),
                             !.cycle.new_queries = new_queries,
                             !.cycle.latest_processed_query_time =
                                 SeqMaxTs(SelectSeq(new_queries, LAMBDA q : q.timestamp # 0))]

\* 5. Filter Queries Newer Than Last Check
Step5_Filter(st, write) ==
    IF st.pc # "running" THEN st
    ELSE LET raw_queries == st.cycle.raw_queries.v
             last_check_time == st.cycle.last_check_time
             new_queries == FilterNew(raw_queries, last_check_time)
             latest_query_time_in_batch ==
                 SeqMaxTs(SelectSeq(raw_queries, LAMBDA q : q.timestamp # 0))
             value == Max2(last_check_time, latest_query_time_in_batch)
         IN  IF new_queries = <<>>
             THEN [st EXCEPT !.file = save_last_check_timestamp(@, value, write),
                             !.cycle.inp.write = write,
                             !.cycle.faults = @ + Fault(write # "ok"),
                             !.cycle.written = Append(@, value),
                             !.cycle.calls = Append(@, "save_last_check_timestamp"),
                             !.cycle.path = "no_new_work",
                             !.pc = "done"]
             ELSE [st EXCEPT !.cycle.new_queries = new_queries,
                             !.cycle.latest_processed_query_time =
                                 SeqMaxTs(SelectSeq(new_queries, LAMBDA q : q.timestamp # 0))]

\* Variant of step 6 that indexes the whole fetched batch, not the new queries.
Step6_DomainMap_FromRawQueries(st) ==
    IF st.pc # "running" THEN st
    ELSE [st EXCEPT !.cycle.domain_query_map =
                        BuildDomainQueryMap(st.cycle.raw_queries.v, <<>>)]

\* 6. Extract Unique Domains from New Queries
Step6_DomainMap(st) ==
    IF st.pc # "running" THEN st
    ELSE [st EXCEPT !.cycle.domain_query_map =
                        BuildDomainQueryMap(st.cycle.new_queries, <<>>)]

\* Variant of step 8 that ends the cycle when the classifier returns None.
Step8_Analyze_AbortsOnFailure(st, mdl, reply) ==
    IF st.pc # "running" THEN st
    ELSE LET new_queries == st.cycle.new_queries
             unique_domains_to_check == MapKeys(st.cycle.domain_query_map)
             queries_for_ai ==
                 SelectSeq(new_queries,
                           LAMBDA q : \E i \in 1..Len(unique_domains_to_check) :
                                          unique_domains_to_check[i] = q.domain)
             r == analyze_dns_batch(mdl, queries_for_ai, reply)
         IN  IF unique_domains_to_check = <<>> THEN st
             ELSE [st EXCEPT !.cycle.ai_analysis_results = r.result,
                             !.cycle.queries_for_ai = queries_for_ai,
                             !.cycle.ai_invoked = r.invoked,
                             !.cycle.inp.reply = IF r.invoked THEN reply ELSE @,
                             !.cycle.faults = @ + Fault(r.invoked /\ reply.kind # "list"),
                             !.cycle.calls =
                                 IF r.invoked
                                 THEN @ \o <<"analyze_dns_batch", "generate_content">>
                                 ELSE Append(@, "analyze_dns_batch"),
                             !.cycle.path = IF r.result.some THEN @ ELSE "ai_failed",
                             !.pc = IF r.result.some THEN @ ELSE "done"]

\* Variant of step 8 that calls the classifier a second time when the first
\* call returned None.
Step8_Analyze_RetriesOnFailure(st, mdl, reply) ==
    IF st.pc # "running" THEN st
    ELSE LET new_queries == st.cycle.new_queries
             unique_domains_to_check == MapKeys(st.cycle.domain_query_map)
             queries_for_ai ==
                 SelectSeq(new_queries,
                           LAMBDA q : \E i \in 1..Len(unique_domains_to_check) :
                                          unique_domains_to_check[i] = q.domain)
             r == analyze_dns_batch(mdl, queries_for_ai, reply)
             once == IF r.invoked
                     THEN <<"analyze_dns_batch", "generate_content">>
                     ELSE <<"analyze_dns_batch">>
         IN  IF unique_domains_to_check = <<>> THEN st
             ELSE [st EXCEPT !.cycle.ai_analysis_results = r.result,
                             !.cycle.queries_for_ai = queries_for_ai,
                             !.cycle.ai_invoked = r.invoked,
                             !.cycle.inp.reply = IF r.invoked THEN reply ELSE @,
                             !.cycle.faults = @ + Fault(r.invoked /\ reply.kind # "list"),
                             !.cycle.calls =
                                 IF r.result.some THEN @ \o once ELSE @ \o once \o once]

\* 8. Analyze with AI
Step8_Analyze(st, mdl, reply) ==
    IF st.pc # "running" THEN st
    ELSE LET new_queries == st.cycle.new_queries
             unique_domains_to_check == MapKeys(st.cycle.domain_query_map)
             queries_for_ai ==
                 SelectSeq(new_queries,
                           LAMBDA q : \E i \in 1..Len(unique_domains_to_check) :
                                          unique_domains_to_check[i] = q.domain)
             r == analyze_dns_batch(mdl, queries_for_ai, reply)
         IN  IF unique_domains_to_check = <<>> THEN st
             ELSE [st EXCEPT !.cycle.ai_analysis_results = r.result,
                             !.cycle.queries_for_ai = queries_for_ai,
                             !.cycle.ai_invoked = r.invoked,
                             !.cycle.inp.reply = IF r.invoked THEN reply ELSE @,
                             !.cycle.faults = @ + Fault(r.invoked /\ reply.kind # "list"),
                             !.cycle.calls =
                                 IF r.invoked
                                 THEN @ \o <<"analyze_dns_batch", "generate_content">>
                                 ELSE Append(@, "analyze_dns_batch")]

\* Variant of the loop body that stores one Finding per query of the domain.
ReconcileDomain_PerQuery(acc, entry, results, cfg, schema, save_fail) ==
    LET domain == entry.domain
        query_details_list == entry.details
    IN  IF acc.raised THEN acc
        ELSE IF ~InFindingsMap(results, domain) \/ domain \in acc.processed THEN acc
        ELSE LET ai_result == FindingsMapItem(results, domain)
                 ai_categories == ai_result.categories
                 ai_reason == IF ai_result.reason = NoReason
                              THEN DefaultReason ELSE ai_result.reason
             IN  IF ~CategoriesTruthy(ai_categories) THEN acc
                 ELSE IF JoinRaises(ai_categories) THEN [acc EXCEPT !.raised = TRUE]
                 ELSE LET joined_categories == Join(ai_categories.labels)
                          fs == [k \in 1..Len(query_details_list) |->
                                    Finding(query_details_list[k].timestamp,
                                            query_details_list[k].client_ip, domain,
                                            joined_categories, ai_reason, "AI")]
                          success == save_finding(fs[1], cfg, schema, domain \notin save_fail)
                      IN  [acc EXCEPT
                             !.saves = @ \o [k \in 1..Len(fs) |->
                                                [finding |-> fs[k], success |-> success]],
                             !.rows = IF success THEN @ \o fs ELSE @,
                             !.notify =
                                 IF success /\ AnyNotify(ai_categories.labels)
                                 THEN Append(@, [timestamp |-> fs[1].query_timestamp,
                                                 client_ip |-> fs[1].client_ip,
                                                 domain |-> domain,
                                                 category |-> joined_categories,
                                                 reason |-> ai_reason,
                                                 source |-> "AI"])
                                 ELSE @,
                             !.processed = @ \cup {domain}]

\* The body of the loop over domain_query_map.items() (lines 204-235).
\* acc: what the loop has done so far; raised: an exception left the loop.
ReconcileDomain(acc, entry, results, cfg, schema, save_fail) ==
    LET domain == entry.domain
        query_details_list == entry.details
    IN  IF acc.raised THEN acc
        ELSE IF ~InFindingsMap(results, domain) \/ domain \in acc.processed THEN acc
        ELSE LET ai_result == FindingsMapItem(results, domain)
                 ai_categories == ai_result.categories
                 ai_reason == IF ai_result.reason = NoReason
                              THEN DefaultReason ELSE ai_result.reason
             IN  IF ~CategoriesTruthy(ai_categories) THEN acc
                 ELSE IF JoinRaises(ai_categories) THEN [acc EXCEPT !.raised = TRUE]
                 ELSE LET first_query_time == query_details_list[1].timestamp
                          first_client_ip == query_details_list[1].client_ip
                          joined_categories == Join(ai_categories.labels)
                          f == Finding(first_query_time, first_client_ip, domain,
                                       joined_categories, ai_reason, "AI")
                          success == save_finding(f, cfg, schema, domain \notin save_fail)
                      IN  [acc EXCEPT
                             !.saves = Append(@, [finding |-> f, success |-> success]),
                             !.rows = IF success THEN Append(@, f) ELSE @,
                             !.notify =
                                 IF success /\ AnyNotify(ai_categories.labels)
                                 THEN Append(@, [timestamp |-> first_query_time,
                                                 client_ip |-> first_client_ip,
                                                 domain |-> domain,
                                                 category |-> joined_categories,
                                                 reason |-> ai_reason,
                                                 source |-> "AI"])
                                 ELSE @,
                             !.processed = @ \cup {domain}]

RECURSIVE ReconcileLoop(_, _, _, _, _, _)
ReconcileLoop(acc, entries, results, cfg, schema, save_fail) ==
    IF entries = <<>> THEN acc
    ELSE ReconcileLoop(ReconcileDomain(acc, Head(entries), results, cfg, schema, save_fail),
                       Tail(entries), results, cfg, schema, save_fail)

\* 9. Process Findings and Store in Database
Step9_Reconcile(st, cfg, save_fail) ==
    IF st.pc # "running" THEN st
    ELSE LET res == st.cycle.ai_analysis_results
         IN  IF ~res.some \/ res.v = <<>> THEN st
             ELSE IF FindingsMapRaises(res.v)
             THEN [st EXCEPT !.pc = "crashed", !.cycle.path = "reconcile_raised"]
             ELSE LET acc == ReconcileLoop(
                                 [saves |-> <<>>, rows |-> st.findings, notify |-> <<>>,
                                  processed |-> {}, raised |-> FALSE],
                                 st.cycle.domain_query_map, res.v, cfg, st.schema,
                                 save_fail)
                  IN  [st EXCEPT
                         !.findings = acc.rows,
                         !.cycle.inp.save_fail = save_fail,
                         !.cycle.faults = @ + Cardinality(save_fail),
                         !.cycle.save_attempts = acc.saves,
                         !.cycle.findings_for_notification = acc.notify,
                         !.cycle.processed_domains = acc.processed,
                         !.cycle.calls = @ \o [i \in 1..Len(acc.saves) |-> "save_finding"],
                         !.cycle.path = IF acc.raised THEN "reconcile_raised" ELSE @,
                         !.pc = IF acc.raised THEN "crashed" ELSE @]

\* 10. Send Notifications
Step10_Notify(st, cfg, smtp_ok) ==
    IF st.pc # "running" THEN st
    ELSE LET findings_for_notification == st.cycle.findings_for_notification
             email_success == send_notification_email(cfg, smtp_ok)
         IN  IF findings_for_notification = <<>> THEN st
             ELSE [st EXCEPT
                     !.outbox = IF email_success
                                THEN Append(@, findings_for_notification) ELSE @,
                     !.cycle.inp.smtp_ok = smtp_ok,
                     !.cycle.faults = @ + Fault(~smtp_ok),
                     !.cycle.email_attempts = Append(@, email_success),
                     !.cycle.calls = Append(@, "send_notification_email")]

\* Variant of step 11 whose second branch is an `if`, not an `elif`: with new
\* queries in a non-empty batch both writes are done.
Step11_SaveTimestamp_WritesTwice(st, write) ==
    IF st.pc # "running" THEN st
    ELSE LET raw_queries == st.cycle.raw_queries.v
             latest_processed_query_time == st.cycle.latest_processed_query_time
             batch == Max2(st.cycle.last_check_time,
                           SeqMaxTs(SelectSeq(raw_queries, LAMBDA q : q.timestamp # 0)))
             s1 == IF latest_processed_query_time > 0
                   THEN [st EXCEPT
                           !.file = save_last_check_timestamp(
                                        @, latest_processed_query_time, write),
                           !.cycle.written = Append(@, latest_processed_query_time),
                           !.cycle.calls = Append(@, "save_last_check_timestamp")]
                   ELSE st
             s2 == IF raw_queries # <<>>
                   THEN [s1 EXCEPT
                           !.file = save_last_check_timestamp(@, batch, write),
                           !.cycle.written = Append(@, batch),
                           !.cycle.calls = Append(@, "save_last_check_timestamp")]
                   ELSE s1
         IN  [s2 EXCEPT !.cycle.inp.write = write,
                        !.cycle.faults = @ + Fault(write # "ok"),
                        !.cycle.path = "normal",
                        !.pc = "done"]

\* 11. Update Last Check Timestamp
Step11_SaveTimestamp(st, write) ==
    IF st.pc # "running" THEN st
    ELSE LET raw_queries == st.cycle.raw_queries.v
             latest_processed_query_time == st.cycle.latest_processed_query_time
             value == IF latest_processed_query_time > 0
                      THEN latest_processed_query_time
                      ELSE Max2(st.cycle.last_check_time,
                                SeqMaxTs(SelectSeq(raw_queries, LAMBDA q : q.timestamp # 0)))
         IN  IF latest_processed_query_time > 0 \/ raw_queries # <<>>
             THEN [st EXCEPT !.file = save_last_check_timestamp(@, value, write),
                             !.cycle.inp.write = write,
                             !.cycle.faults = @ + Fault(write # "ok"),
                             !.cycle.written = Append(@, value),
                             !.cycle.calls = Append(@, "save_last_check_timestamp"),
                             !.cycle.path = "normal",
                             !.pc = "done"]
             ELSE [st EXCEPT !.cycle.path = "normal", !.pc = "done"]

\* ------------------------------------------- analyze_dns_batch on its own
\* The replies the service is given to send: a JSON text, bare or between an
\* opening fence line (with or without a language tag) and a closing fence
\* line, each with or without its line break.
Payloads ==
    {<<"[", "]">>, <<"[", "1", "]">>, <<"[", "{", "}", "]">>,
     <<"[", "{", "}", ",", " ", "1", "]">>, <<"{", "}">>, <<"1">>,
     <<"[", "1">>, <<>>}
Tags == {<<>>, <<"j", "s", "o", "n">>, <<"p", "y">>}
LineBreaks == {<<>>, <<"\n">>}

Layouts ==
    [open : {<<>>, Fence}, tag : Tags, break1 : LineBreaks, payload : Payloads,
     break2 : LineBreaks, close : {<<>>, Fence}]

TextOf(l) == l.open \o l.tag \o l.break1 \o l.payload \o l.break2 \o l.close

\* the queries analyze_dns_batch is called with
AdapterQueries ==
    {[timestamp |-> 1, domain |-> "a.com", client_ip |-> "10.0.0.1"],
     [timestamp |-> 1, domain |-> NoDomain, client_ip |-> "10.0.0.1"]}

NoCall ==
    [pc |-> "none", dns_query_list |-> <<>>, raises |-> FALSE,
     layout |-> [open |-> <<>>, tag |-> <<>>, break1 |-> <<>>, payload |-> <<>>,
                 break2 |-> <<>>, close |-> <<>>],
     result |-> None, invoked |-> FALSE]

AdapterInit ==
    /\ config = [PIHOLE_BASE_URL |-> TRUE, PIHOLE_PASSWORD |-> TRUE,
                 GOOGLE_API_KEY |-> TRUE, DATABASE_PATH |-> TRUE, SMTP |-> TRUE]
    /\ model \in BOOLEAN
    /\ last_check_file = FileAbsent
    /\ db_schema = FALSE
    /\ findings = <<>>
    /\ outbox = <<>>
    /\ pc = "adapter"
    /\ cycle = NoCycle
    /\ pihole_log = <<>>
    /\ invocations = NoInvocations
    /\ previous = NoCycle
    /\ \E qs \in SeqsUpTo(AdapterQueries, MaxBatch), raises \in BOOLEAN, l \in Layouts :
           adapter = [NoCall EXCEPT !.pc = "ready", !.dns_query_list = qs,
                                    !.raises = raises, !.layout = l]

\* one call of ai_analyzer.analyze_dns_batch(dns_query_list)
AnalyzeCall ==
    /\ adapter.pc = "ready"
    /\ LET reply == parse_response(adapter.raises, TextOf(adapter.layout))
           r == analyze_dns_batch(model, adapter.dns_query_list, reply)
       IN  adapter' = [adapter EXCEPT !.pc = "returned", !.result = r.result,
                                      !.invoked = r.invoked]
    /\ UNCHANGED <<config, model, last_check_file, db_schema, findings, outbox, pc, cycle,
                   pihole_log, invocations, previous>>

AdapterNext == AnalyzeCall

AdapterSpec == AdapterInit /\ [][AdapterNext]_vars

\* ------------------------------------------------------- the process (main)
Configs ==
    [PIHOLE_BASE_URL : BOOLEAN, PIHOLE_PASSWORD : BOOLEAN, GOOGLE_API_KEY : BOOLEAN,
     \* DATABASE_PATH defaults to "./findings.db" (config.py line 22)
     DATABASE_PATH : {TRUE}, SMTP : BOOLEAN]

\* the optional collaborators that are unavailable for the whole run
ConfigFaults(cfg, mdl) == Fault(~mdl) + Fault(~cfg.SMTP)

Init ==
    /\ config \in Configs
    \* ai_analyzer, lines 12-30: no key, or genai.configure raises: model = None
    /\ model \in (IF config.GOOGLE_API_KEY THEN BOOLEAN ELSE {FALSE})
    /\ ConfigFaults(config, model) <= MaxFaults
    /\ last_check_file \in FileStates
    /\ db_schema \in BOOLEAN
    /\ findings = <<>>
    /\ outbox = <<>>
    /\ pc = "start"
    /\ cycle = NoCycle
    /\ adapter = NoCall
    /\ pihole_log = <<>>
    /\ invocations = NoInvocations
    /\ previous = NoCycle

\* The outcomes a step draws from: all of S when the cycle consumes the
\* outcome and a fault is still allowed, the successful ones (Good) when the
\* faults are used up, the default (never looked at) when the step is skipped.
Outcomes(st, consumed, S, Good, default) ==
    IF ~consumed THEN {default}
    ELSE IF st.cycle.faults < MaxFaults THEN S
    ELSE Good

\* the domains step 9 hands to save_finding
SavedDomains(st) ==
    LET saves == Step9_Reconcile(st, config, {}).cycle.save_attempts
    IN  {saves[i].finding.domain : i \in 1..Len(saves)}

\* the sets of domains whose insert may fail
SaveFailures(st) ==
    IF st.schema /\ config.DATABASE_PATH
    THEN {F \in SUBSET SavedDomains(st) : st.cycle.faults + Cardinality(F) <= MaxFaults}
    ELSE {{}}

\* run_analysis_cycle: steps 1 to 11 in order, each collaborator outcome
\* drawn where the step consumes it.  (Each intermediate state is bound by a
\* quantifier over a singleton so that it is computed once.)
run_analysis_cycle ==
    \E s0 \in {Begin(last_check_file, db_schema, findings, outbox,
                     ConfigFaults(config, model))} :
    \E init_db \in Outcomes(s0, TRUE, InitDbOutcomes, {"ok"}, "ok") :
    \E s1 \in {Step1_InitializeDatabase(s0, init_db)} :
    \E auth \in Outcomes(s1, s1.pc = "running", BOOLEAN, {TRUE}, TRUE) :
    \E s2 \in {Step2_Authenticate(s1, config, auth)} :
    \E read \in Outcomes(s2, s2.pc = "running", ReadOutcomes(last_check_file),
                         {"ok"}, "ok") :
    \E s3 \in {Step3_LoadTimestamp(s2, read)} :
    \E response \in Outcomes(s3, s3.pc = "running", FetchResponses,
                             FetchResponses \ {None}, None) :
    \E s4 \in {Step4_Fetch(s3, config, response)} :
    \E write5 \in Outcomes(s4, Step5_Filter(s4, "ok").cycle.written # <<>>,
                           WriteOutcomes, {"ok"}, "ok") :
    \E s6 \in {Step6_DomainMap(Step5_Filter(s4, write5))} :
    \E reply \in Outcomes(s6, Step8_Analyze(s6, model, NoCycle.inp.reply).cycle.ai_invoked,
                          Replies, {r \in Replies : r.kind = "list"},
                          NoCycle.inp.reply) :
    \E s8 \in {Step8_Analyze(s6, model, reply)} :
    \E save_fail \in SaveFailures(s8) :
    \E s9 \in {Step9_Reconcile(s8, config, save_fail)} :
    \E smtp_ok \in Outcomes(s9, s9.pc = "running" /\ config.SMTP
                                   /\ s9.cycle.findings_for_notification # <<>>,
                            BOOLEAN, {TRUE}, TRUE) :
    \E s10 \in {Step10_Notify(s9, config, smtp_ok)} :
    \E write11 \in Outcomes(s10, s10.pc = "running", WriteOutcomes, {"ok"}, "ok") :
    \E st \in {Step11_SaveTimestamp(s10, write11)} :
        /\ last_check_file' = st.file
        /\ db_schema' = st.schema
        /\ findings' = st.findings
        /\ outbox' = st.outbox
        /\ cycle' = st.cycle
        /\ pc' = st.pc

\* Variant of __main__ whose check looks at the base URL only.
Main_ChecksUrlOnly ==
    /\ pc = "start"
    /\ IF ~config.PIHOLE_BASE_URL
       THEN /\ pc' = "exit1"
            /\ UNCHANGED <<last_check_file, db_schema, findings, outbox, cycle>>
       ELSE run_analysis_cycle
    /\ UNCHANGED <<config, model, adapter, pihole_log, invocations, previous>>

\* main.py __main__: the configuration check, then one cycle.
Main ==
    /\ pc = "start"
    /\ IF ~config.PIHOLE_BASE_URL \/ ~config.PIHOLE_PASSWORD
       THEN /\ pc' = "exit1"
            /\ UNCHANGED <<last_check_file, db_schema, findings, outbox, cycle>>
       ELSE run_analysis_cycle
    /\ UNCHANGED <<config, model, adapter, pihole_log, invocations, previous>>

Next == Main

Spec == Init /\ [][Next]_vars

\* ------------------------------------------- runs of the process that overlap
\* Two runs of the process started by a scheduler, on one Pi-hole and one
\* last_check.txt.  A run is split where it touches what the runs share: it
\* reads the watermark (steps 1-3), fetches the log (step 4), and filters,
\* classifies and writes the watermark (steps 5-11).  The code takes no lock,
\* so the parts of the two runs interleave freely.  Every collaborator
\* succeeds: the login, the read and the write work, and the classifier finds
\* nothing to report.
NothingToReport == Reply("list", <<>>)

OverlapInit ==
    /\ config = [PIHOLE_BASE_URL |-> TRUE, PIHOLE_PASSWORD |-> TRUE,
                 GOOGLE_API_KEY |-> TRUE, DATABASE_PATH |-> TRUE, SMTP |-> TRUE]
    /\ model = TRUE
    /\ last_check_file \in FileStates
    /\ db_schema = FALSE
    /\ findings = <<>>
    /\ outbox = <<>>
    /\ pc = "overlap"
    /\ cycle = NoCycle
    /\ adapter = NoCall
    /\ pihole_log = <<>>
    /\ invocations = NoInvocations
    /\ previous = NoCycle

\* the Pi-hole answers a DNS query and appends it to its log; time goes on
QueryLogged ==
    /\ Len(pihole_log) < MaxBatch
    /\ \E q \in ValidRaw :
           /\ pihole_log # <<>> => q.time >= pihole_log[Len(pihole_log)].time
           /\ pihole_log' = Append(pihole_log, q)
    /\ UNCHANGED <<config, model, last_check_file, db_schema, findings, outbox, pc,
                   cycle, adapter, invocations, previous>>

\* steps 1 to 3 of run i: initialize the database, log in, read the watermark
ReadWatermark(i) ==
    /\ invocations[i].at = "start"
    /\ \E s \in {Step3_LoadTimestamp(
                    Step2_Authenticate(
                        Step1_InitializeDatabase(
                            Begin(last_check_file, db_schema, findings, outbox, 0),
                            "ok"),
                        config, TRUE),
                    "ok")} :
           /\ invocations' = [invocations EXCEPT ![i] = [at |-> "read", st |-> s]]
           /\ db_schema' = s.schema
    /\ UNCHANGED <<config, model, last_check_file, findings, outbox, pc, cycle,
                   adapter, pihole_log, previous>>

\* step 4 of run i: fetch the log as it is now
FetchLog(i) ==
    /\ invocations[i].at = "read"
    /\ invocations' =
           [invocations EXCEPT
              ![i] = [at |-> "fetched",
                      st |-> Step4_Fetch(invocations[i].st, config, Some(pihole_log))]]
    /\ UNCHANGED <<config, model, last_check_file, db_schema, findings, outbox, pc,
                   cycle, adapter, pihole_log, previous>>

\* steps 5 to 11 of run i, on the files as they are now
FinishCycle(i) ==
    /\ invocations[i].at = "fetched"
    /\ \E s4 \in {[invocations[i].st EXCEPT !.file = last_check_file,
                                            !.schema = db_schema,
                                            !.findings = findings,
                                            !.outbox = outbox]} :
       \E s8 \in {Step8_Analyze(Step6_DomainMap(Step5_Filter(s4, "ok")), model,
                                NothingToReport)} :
       \E s \in {Step11_SaveTimestamp(
                    Step10_Notify(Step9_Reconcile(s8, config, {}), config, TRUE),
                    "ok")} :
           /\ invocations' = [invocations EXCEPT ![i] = [at |-> "ended", st |-> s]]
           /\ last_check_file' = s.file
           /\ findings' = s.findings
           /\ outbox' = s.outbox
    /\ UNCHANGED <<config, model, db_schema, pc, cycle, adapter, pihole_log, previous>>

OverlapNext ==
    \/ QueryLogged
    \/ \E i \in Invocations : ReadWatermark(i)
    \/ \E i \in Invocations : FetchLog(i)
    \/ \E i \in Invocations : FinishCycle(i)

OverlapSpec == OverlapInit /\ [][OverlapNext]_vars

\* ------------------------------------------ two runs, one after the other
\* The scheduler runs the process twice.  Nothing was logged by the Pi-hole
\* in between: the second run is served the batch the first one was served,
\* and the classifier, asked again, replies as it did the first time.  In
\* the second run the database, the login, the saves and the mail server
\* work; the read and the write of the watermark record may fail.
RepeatInit ==
    /\ config = [PIHOLE_BASE_URL |-> TRUE, PIHOLE_PASSWORD |-> TRUE,
                 GOOGLE_API_KEY |-> TRUE, DATABASE_PATH |-> TRUE, SMTP |-> TRUE]
    /\ model = TRUE
    /\ last_check_file \in FileStates
    /\ db_schema = TRUE
    /\ findings = <<>>
    /\ outbox = <<>>
    /\ pc = "start"
    /\ cycle = NoCycle
    /\ adapter = NoCall
    /\ pihole_log = <<>>
    /\ invocations = NoInvocations
    /\ previous = NoCycle

\* the replies of the classifier in the second run
SecondReplies(st) ==
    IF cycle.ai_invoked THEN {cycle.inp.reply}
    ELSE Outcomes(st, Step8_Analyze(st, model, NoCycle.inp.reply).cycle.ai_invoked,
                  Replies, {r \in Replies : r.kind = "list"}, NoCycle.inp.reply)

\* the second run of the process: run_analysis_cycle again, steps 1 to 11,
\* on the files the first run left, for the batch the first run fetched
SecondRun ==
    /\ pc = "done" /\ previous = NoCycle
    /\ cycle.raw_queries.some
    /\ previous' = cycle
    /\ \E s0 \in {Begin(last_check_file, db_schema, findings, outbox,
                        ConfigFaults(config, model))} :
       \E s1 \in {Step1_InitializeDatabase(s0, "ok")} :
       \E s2 \in {Step2_Authenticate(s1, config, TRUE)} :
       \E read \in Outcomes(s2, s2.pc = "running", ReadOutcomes(last_check_file),
                            {"ok"}, "ok") :
       \E s3 \in {Step3_LoadTimestamp(s2, read)} :
       \E s4 \in {Step4_Fetch(s3, config, cycle.inp.fetch)} :
       \E write5 \in Outcomes(s4, Step5_Filter(s4, "ok").cycle.written # <<>>,
                              WriteOutcomes, {"ok"}, "ok") :
       \E s6 \in {Step6_DomainMap(Step5_Filter(s4, write5))} :
       \E reply \in SecondReplies(s6) :
       \E s8 \in {Step8_Analyze(s6, model, reply)} :
       \E s9 \in {Step9_Reconcile(s8, config, {})} :
       \E s10 \in {Step10_Notify(s9, config, TRUE)} :
       \E write11 \in Outcomes(s10, s10.pc = "running", WriteOutcomes, {"ok"}, "ok") :
       \E st \in {Step11_SaveTimestamp(s10, write11)} :
           /\ last_check_file' = st.file
           /\ db_schema' = st.schema
           /\ findings' = st.findings
           /\ outbox' = st.outbox
           /\ cycle' = st.cycle
           /\ pc' = st.pc
    /\ UNCHANGED <<config, model, adapter, pihole_log, invocations>>

RepeatNext ==
    \/ Main
    \/ SecondRun

RepeatSpec == RepeatInit /\ [][RepeatNext]_vars

\* ================================================================== claims
\* Vocabulary of the claims, stated on the record of the cycle and not on
\* the operators that compute it.
Ended == pc \in {"done", "crashed"}

CallCount(op) == Cardinality({i \in 1..Len(cycle.calls) : cycle.calls[i] = op})
WasCalled(op) == CallCount(op) > 0

\* the batch get_recent_queries returned (a list, possibly empty)
Fetched == cycle.raw_queries.v
FetchOk == Ended /\ WasCalled("get_recent_queries") /\ cycle.raw_queries.some

TimesOf(qs) == {qs[i].timestamp : i \in 1..Len(qs)}
SetMax(S) == CHOOSE m \in S : \A x \in S : x <= m
\* timestamps of the fetched queries newer than the watermark the cycle read
NewTimes == {t \in TimesOf(Fetched) : t > cycle.last_check_time}

\* the calls of every cycle that gets past the fetch
Prologue == <<"initialize_database", "authenticate", "load_last_check_timestamp",
              "get_recent_queries">>

\* the stored watermark is what the cycle found
WatermarkUntouched ==
    /\ cycle.written = <<>>
    /\ last_check_file = cycle.file_before

\* the cycle wrote the watermark once, with value v; the record holds v when
\* the write succeeded
WroteWatermark(v) ==
    /\ cycle.written = <<v>>
    /\ cycle.inp.write = "ok" => last_check_file = FileValid(v)
    /\ cycle.inp.write = "open_failed" => last_check_file = cycle.file_before

\* nothing was stored and nothing was sent (both start empty)
NoFindingNoMail ==
    /\ cycle.save_attempts = <<>> /\ findings = <<>>
    /\ cycle.email_attempts = <<>> /\ outbox = <<>>

\* ---- C1 (code_bug) -------------------------------------------------------
\* C1: from the start of a cycle to its end the watermark value held in the
\* watermark record never decreases, whatever the collaborators do.
C1_WatermarkNeverDecreases ==
    Ended => WatermarkValue(last_check_file) >= WatermarkValue(cycle.file_before)

\* What the code does guarantee: the value does not decrease when the read
\* succeeded and the write did not truncate the file.
WatermarkMonotoneIfReadAndWriteBehave ==
    (Ended /\ cycle.inp.read = "ok" /\ cycle.inp.write # "truncated")
        => WatermarkValue(last_check_file) >= WatermarkValue(cycle.file_before)

\* ---- C2 (confirmed) ------------------------------------------------------
ClassifierFailed ==
    Ended /\ WasCalled("analyze_dns_batch") /\ ~cycle.ai_analysis_results.some

\* C2: when the classifier call fails (unconfigured, the call raises, the
\* reply is not JSON, the reply is not a list) the cycle is not aborted: it
\* stores no Finding, sends no notification, and writes the watermark to the
\* maximum timestamp of the new queries.
C2_ClassifierFailureIsolated ==
    ClassifierFailed =>
        /\ pc = "done"
        /\ NoFindingNoMail
        /\ WroteWatermark(SetMax(NewTimes))

C2_Witness ==
    /\ ClassifierFailed
    /\ cycle.ai_invoked /\ cycle.inp.reply.kind = "not_list"
    /\ Len(Fetched) = 2 /\ Cardinality(NewTimes) = 1
    /\ cycle.file_before = FileValid(1) /\ last_check_file = FileValid(2)

\* ---- C3 (corrected) ------------------------------------------------------
LoginFailed == Ended /\ WasCalled("authenticate") /\ ~cycle.sid

\* C3 as claimed: a failed login leaves no persisted side effect: no fetch,
\* no classifier call, no Finding, no notification, no storage write of any
\* kind, the watermark unchanged.
C3_LoginFailureWritesNothing ==
    LoginFailed =>
        /\ ~WasCalled("get_recent_queries") /\ ~WasCalled("analyze_dns_batch")
        /\ NoFindingNoMail
        /\ db_schema = cycle.schema_before
        /\ WatermarkUntouched

\* C3 amended: a failed login ends the cycle at once, with no fetch, no
\* classifier call, no Finding, no notification and the watermark unchanged;
\* the one storage effect is that of initialize_database, which ran before
\* the login and creates the findings table when it succeeds.
C3_LoginFailureOnlyInitializesDatabase ==
    LoginFailed =>
        /\ pc = "done"
        /\ cycle.calls = <<"initialize_database", "authenticate">>
        /\ NoFindingNoMail
        /\ WatermarkUntouched
        /\ db_schema = (cycle.schema_before \/ cycle.inp.init_db = "ok")

C3_Witness ==
    /\ LoginFailed
    /\ ~cycle.schema_before /\ db_schema
    /\ cycle.file_before = FileValid(1)

\* ---- C4 (confirmed) ------------------------------------------------------
FetchFailed == Ended /\ WasCalled("get_recent_queries") /\ ~cycle.raw_queries.some

\* C4: when the fetch fails (get_recent_queries returns None) the cycle ends
\* at once: no classifier call, no Finding, no notification, the watermark
\* unchanged.
C4_FetchFailureEndsCycle ==
    FetchFailed =>
        /\ pc = "done"
        /\ cycle.calls = Prologue
        /\ NoFindingNoMail
        /\ WatermarkUntouched

C4_Witness ==
    /\ FetchFailed
    /\ cycle.sid
    /\ cycle.file_before = FileValid(2) /\ last_check_file = FileValid(2)

\* ---- C5 (code_bug) -------------------------------------------------------
HasNewQuery == FetchOk /\ NewTimes # {}

\* C5: when at least one fetched query is newer than the watermark, the cycle
\* ends by writing the watermark to the maximum timestamp over all new
\* queries, classified or not.
C5_NormalPathAdvancesWatermark ==
    HasNewQuery =>
        /\ pc = "done"
        /\ WroteWatermark(SetMax(NewTimes))

\* What the code does guarantee: the write happens in every cycle that
\* reaches step 11, that is whenever the reconciliation raised nothing.
NormalPathAdvancesUnlessRaised ==
    (HasNewQuery /\ cycle.path # "reconcile_raised") =>
        /\ pc = "done"
        /\ WroteWatermark(SetMax(NewTimes))

\* ---- C6 (corrected) ------------------------------------------------------
\* the stored watermark covers every fetched query
AllFetchedCovered ==
    /\ FetchOk /\ Fetched # <<>>
    /\ \A t \in TimesOf(Fetched) : t <= WatermarkValue(cycle.file_before)

\* C6 as claimed: when every fetched query has a timestamp up to the
\* watermark, the watermark stored after the cycle equals the maximum
\* timestamp over the fetched batch.
C6_StoredWatermarkIsBatchMax ==
    AllFetchedCovered =>
        WatermarkValue(last_check_file) = SetMax(TimesOf(Fetched))

\* the watermark the cycle read covers every fetched query
NothingNewer == FetchOk /\ Fetched # <<>> /\ NewTimes = {}

\* C6 amended: when no fetched query is newer than the watermark the cycle
\* read, the cycle writes that watermark back: the value it read is the
\* stored one, it is at least the batch maximum, and it is still the stored
\* one after the cycle unless the write truncated the file.
C6_StoredWatermarkKept ==
    NothingNewer =>
        /\ cycle.last_check_time = WatermarkValue(cycle.file_before)
        /\ cycle.last_check_time >= SetMax(TimesOf(Fetched))
        /\ cycle.written = <<cycle.last_check_time>>
        /\ cycle.inp.write # "truncated"
               => WatermarkValue(last_check_file) = WatermarkValue(cycle.file_before)

C6_Witness ==
    /\ NothingNewer
    /\ cycle.file_before = FileValid(2)
    /\ SetMax(TimesOf(Fetched)) = 1
    /\ cycle.written = <<2>> /\ last_check_file = FileValid(2)

\* ---- C7 (confirmed) ------------------------------------------------------
\* C7: when the batch is non-empty and holds no query newer than the
\* watermark, the cycle writes max(old watermark, maximum timestamp over the
\* fetched queries) and ends with no classifier call, no Finding and no
\* notification.
C7_NoNewWorkWritesMax ==
    NothingNewer =>
        /\ pc = "done"
        /\ cycle.calls = Prologue \o <<"save_last_check_timestamp">>
        /\ WroteWatermark(SetMax({cycle.last_check_time} \cup TimesOf(Fetched)))
        /\ NoFindingNoMail

C7_Witness ==
    /\ NothingNewer
    /\ Len(Fetched) = 2 /\ TimesOf(Fetched) = {1, 2}
    /\ cycle.last_check_time = 2
    /\ cycle.written = <<2>> /\ cycle.inp.write = "ok"

\* ---- C8 (confirmed) ------------------------------------------------------
EmptyFetch == FetchOk /\ Fetched = <<>>

\* C8: when the fetch returns an empty list the cycle ends with no watermark
\* write, no classifier call, no save and no notification.
C8_EmptyFetchWritesNothing ==
    EmptyFetch =>
        /\ pc = "done"
        /\ cycle.calls = Prologue
        /\ NoFindingNoMail
        /\ WatermarkUntouched

C8_Witness ==
    /\ EmptyFetch
    /\ cycle.inp.fetch = Some(<<>>)
    /\ cycle.file_before = FileAbsent /\ last_check_file = FileAbsent

\* ---- C9 (code_bug) -------------------------------------------------------
FailedSaves == {i \in 1..Len(cycle.save_attempts) : ~cycle.save_attempts[i].success}
SaveFailed == Ended /\ FailedSaves # {}

CandidateDomains ==
    {cycle.findings_for_notification[i].domain :
        i \in 1..Len(cycle.findings_for_notification)}

\* the Findings of the successful saves, in order
SavedFindings ==
    LET saved == SelectSeq(cycle.save_attempts, LAMBDA a : a.success)
    IN  [i \in 1..Len(saved) |-> saved[i].finding]

\* C9: when saving a Finding fails, that Finding is not a notification
\* candidate, the cycle continues (the Findings whose save succeeds are
\* stored) and the watermark is still advanced.
C9_SaveFailureIsolated ==
    SaveFailed =>
        /\ \A i \in FailedSaves :
               cycle.save_attempts[i].finding.domain \notin CandidateDomains
        /\ findings = SavedFindings
        /\ pc = "done"
        /\ WroteWatermark(SetMax(NewTimes))

\* What the code does guarantee: the same, whenever nothing raised in the
\* reconciliation after the failed save.
SaveFailureIsolatedUnlessRaised ==
    (SaveFailed /\ cycle.path # "reconcile_raised") =>
        /\ \A i \in FailedSaves :
               cycle.save_attempts[i].finding.domain \notin CandidateDomains
        /\ findings = SavedFindings
        /\ pc = "done"
        /\ WroteWatermark(SetMax(NewTimes))

\* ---- C10 (code_bug) ------------------------------------------------------
\* C10: the digest is attempted exactly once in a cycle whose candidate list
\* is non-empty and never when it is empty; a failed delivery is not retried
\* and does not prevent the watermark advance.
C10_DigestOncePerCandidateList ==
    Ended =>
        /\ CallCount("send_notification_email")
               = (IF cycle.findings_for_notification # <<>> THEN 1 ELSE 0)
        /\ cycle.findings_for_notification # <<>>
               => pc = "done" /\ WroteWatermark(SetMax(NewTimes))

\* What the code does guarantee: the same, in every cycle that reaches
\* step 10.
DigestOnceUnlessRaised ==
    (Ended /\ cycle.path # "reconcile_raised") =>
        /\ CallCount("send_notification_email")
               = (IF cycle.findings_for_notification # <<>> THEN 1 ELSE 0)
        /\ Len(cycle.email_attempts) = CallCount("send_notification_email")
        /\ cycle.findings_for_notification # <<>>
               => pc = "done" /\ WroteWatermark(SetMax(NewTimes))

\* ---- vocabulary of the reconciliation claims ------------------------------
SetMin(S) == CHOOSE m \in S : \A x \in S : m <= x

\* the fetched queries newer than the watermark the cycle read, in batch order
NewFetched == SelectSeq(Fetched, LAMBDA q : q.timestamp > cycle.last_check_time)
NewDomains == {NewFetched[i].domain : i \in 1..Len(NewFetched)}

AttemptedDomains ==
    {cycle.save_attempts[i].finding.domain : i \in 1..Len(cycle.save_attempts)}
StoredDomains == {findings[i].domain : i \in 1..Len(findings)}

\* the list the classifier returned
Results == cycle.ai_analysis_results.v
ItemsFor(d) == {i \in 1..Len(Results) : Results[i].is_dict /\ Results[i].domain = d}
\* the result that stands for d: a later entry replaces an earlier one
ResultFor(d) == Results[SetMax(ItemsFor(d))]
EmptyCategories(c) == c.kind = "absent" \/ (c.kind = "list" /\ c.labels = <<>>)

\* ---- C11 (confirmed) -----------------------------------------------------
\* C11: every Finding handed to storage, stored, or made a notification
\* candidate in a cycle has the domain of a new query of that cycle; a domain
\* that only the classifier names produces none of them.
C11_FindingsOnlyForNewDomains ==
    Ended =>
        /\ AttemptedDomains \subseteq NewDomains
        /\ StoredDomains \subseteq NewDomains
        /\ CandidateDomains \subseteq NewDomains

C11_Witness ==
    /\ pc = "done"
    /\ \E i \in 1..Len(Results) : Results[i].domain = Hallucinated
    /\ StoredDomains = {"b.com"} /\ CandidateDomains = {"b.com"}
    /\ \E i \in 1..Len(Fetched) :
           Fetched[i].domain = "a.com" /\ Fetched[i].timestamp <= cycle.last_check_time

\* ---- C12 (corrected) -----------------------------------------------------
\* no Finding and no candidate comes from a result without categories
NothingFromEmptyCategories ==
    \A d \in NewDomains :
        (ItemsFor(d) # {} /\ EmptyCategories(ResultFor(d).categories))
            => d \notin AttemptedDomains \cup StoredDomains \cup CandidateDomains

\* C12 as claimed: a result whose categories are empty or absent produces no
\* stored Finding and no candidate, and every Finding passed to storage has
\* a non-empty category string.
C12_NoEmptyCategoryPassedToStorage ==
    Ended =>
        /\ NothingFromEmptyCategories
        /\ \A i \in 1..Len(cycle.save_attempts) :
               cycle.save_attempts[i].finding.category # ""

\* C12 amended: a result whose categories are empty or absent produces no
\* save, no stored Finding and no candidate; every stored Finding and every
\* candidate has a non-empty category string, and a Finding passed to
\* storage with an empty category string (labels that join to "") is
\* rejected by save_finding.
C12_NoEmptyCategoryStored ==
    Ended =>
        /\ NothingFromEmptyCategories
        /\ \A i \in 1..Len(findings) : findings[i].category # ""
        /\ \A i \in 1..Len(cycle.findings_for_notification) :
               cycle.findings_for_notification[i].category # ""
        /\ \A i \in 1..Len(cycle.save_attempts) :
               cycle.save_attempts[i].finding.category = ""
                   => ~cycle.save_attempts[i].success

C12_Witness ==
    /\ pc = "done"
    /\ NewDomains = {"a.com", "b.com"}
    /\ ItemsFor("a.com") # {} /\ ResultFor("a.com").categories = CatsList(<<>>)
    /\ AttemptedDomains = {"b.com"} /\ StoredDomains = {"b.com"}

\* ---- C13 (confirmed) -----------------------------------------------------
\* C13: within one cycle at most one Finding is handed to storage, and so at
\* most one is stored, per domain, however many new queries share the domain
\* and however many entries the classifier returns for it.
C13_OneFindingPerDomain ==
    Ended =>
        /\ \A i, j \in 1..Len(cycle.save_attempts) :
               i # j => cycle.save_attempts[i].finding.domain
                            # cycle.save_attempts[j].finding.domain
        /\ \A i, j \in 1..Len(findings) :
               i # j => findings[i].domain # findings[j].domain

C13_Witness ==
    /\ pc = "done"
    /\ Len(NewFetched) = 2 /\ NewDomains = {"a.com"}
    /\ Cardinality(ItemsFor("a.com")) = 2
    /\ Len(findings) = 1

\* ---- C14 (confirmed) -----------------------------------------------------
FirstNewIndex(d) == SetMin({i \in 1..Len(NewFetched) : NewFetched[i].domain = d})

\* C14: the Finding of a domain carries the timestamp and the client IP of
\* the first new query of that domain in batch order.
C14_FindingUsesFirstQuery ==
    Ended =>
        /\ \A i \in 1..Len(cycle.save_attempts) :
               LET f == cycle.save_attempts[i].finding
                   q == NewFetched[FirstNewIndex(f.domain)]
               IN  f.query_timestamp = q.timestamp /\ f.client_ip = q.client_ip
        /\ \A i \in 1..Len(findings) :
               LET q == NewFetched[FirstNewIndex(findings[i].domain)]
               IN  /\ findings[i].query_timestamp = q.timestamp
                   /\ findings[i].client_ip = q.client_ip

C14_Witness ==
    /\ pc = "done"
    /\ Len(NewFetched) = 2 /\ NewDomains = {"a.com"}
    /\ NewFetched[1].timestamp = 2 /\ NewFetched[2].timestamp = 1
    /\ NewFetched[1].client_ip # NewFetched[2].client_ip
    /\ Len(findings) = 1
    /\ findings[1].query_timestamp = 2 /\ findings[1].client_ip = NewFetched[1].client_ip

\* ---- C15 (confirmed) -----------------------------------------------------
HasAlertLabel(c) == \E i \in 1..Len(c.labels) : c.labels[i] \in NOTIFY_CATEGORIES

\* C15: a domain is a notification candidate of the cycle iff its Finding was
\* stored successfully and one of its labels is an alert category; it is a
\* candidate at most once.
C15_CandidateIffStoredAndAlert ==
    Ended =>
        /\ CandidateDomains \subseteq AttemptedDomains
        /\ Len(cycle.findings_for_notification) = Cardinality(CandidateDomains)
        /\ \A i \in 1..Len(cycle.save_attempts) :
               LET a == cycle.save_attempts[i]
                   d == a.finding.domain
               IN  d \in CandidateDomains
                       <=> (a.success /\ HasAlertLabel(ResultFor(d).categories))

C15_Witness ==
    /\ pc = "done"
    /\ StoredDomains = {"a.com", "b.com"}
    /\ ResultFor("a.com").categories = CatsList(<<"Dating">>)
    /\ CandidateDomains = {"b.com"}

\* ---- C16 (confirmed) -----------------------------------------------------
\* the raw records with a truthy domain and a truthy time, in input order
KeptRecords ==
    SelectSeq(cycle.inp.fetch.v, LAMBDA r : r.domain # NoDomain /\ r.time # 0)

\* C16: normalization emits a Query for a raw record iff the record has a
\* truthy domain and a truthy timestamp, in the order of the input; a
\* dropped record does not stop the batch.
C16_NormalizationKeepsCompleteRecords ==
    (Ended /\ WasCalled("get_recent_queries") /\ cycle.inp.fetch.some) =>
        /\ cycle.raw_queries.some
        /\ Len(Fetched) = Len(KeptRecords)
        /\ \A i \in 1..Len(KeptRecords) :
               /\ Fetched[i].timestamp = KeptRecords[i].time
               /\ Fetched[i].domain = KeptRecords[i].domain
               /\ Fetched[i].client_ip = KeptRecords[i].ip

C16_Witness ==
    /\ Ended /\ WasCalled("get_recent_queries") /\ cycle.inp.fetch.some
    /\ Len(cycle.inp.fetch.v) = 2
    /\ cycle.inp.fetch.v[1].time = 0
    /\ Len(Fetched) = 1 /\ Fetched[1].domain = cycle.inp.fetch.v[2].domain

\* ---- C17 (confirmed) -----------------------------------------------------
DomainContext == cycle.domain_query_map

RECURSIVE TotalEntries(_)
TotalEntries(m) == IF m = <<>> THEN 0 ELSE Len(Head(m).details) + TotalEntries(Tail(m))

\* the contexts of the new queries of domain d, in batch order
ContextsOf(d) ==
    LET qs == SelectSeq(NewFetched, LAMBDA q : q.domain = d)
    IN  [i \in 1..Len(qs) |-> [timestamp |-> qs[i].timestamp, client_ip |-> qs[i].client_ip]]

\* C17: for N new queries over D distinct domains the DomainContext has
\* exactly D keys in first-seen order, every list is non-empty and in batch
\* order, and the lists hold N entries together.
C17_DomainContextShape ==
    (Ended /\ FetchOk /\ NewFetched # <<>>) =>
        /\ Len(DomainContext) = Cardinality(NewDomains)
        /\ {DomainContext[i].domain : i \in 1..Len(DomainContext)} = NewDomains
        /\ \A i, j \in 1..Len(DomainContext) :
               i < j => FirstNewIndex(DomainContext[i].domain)
                            < FirstNewIndex(DomainContext[j].domain)
        /\ \A i \in 1..Len(DomainContext) :
               /\ DomainContext[i].details # <<>>
               /\ DomainContext[i].details = ContextsOf(DomainContext[i].domain)
        /\ TotalEntries(DomainContext) = Len(NewFetched)

C17_Witness ==
    /\ Ended /\ FetchOk
    /\ Len(NewFetched) = 2
    /\ NewFetched[1].domain = "b.com" /\ NewFetched[2].domain = "a.com"
    /\ Len(DomainContext) = 2
    /\ DomainContext[1].domain = "b.com" /\ DomainContext[2].domain = "a.com"

\* ---- C19 (confirmed) -----------------------------------------------------
ReplyNotAList == Ended /\ cycle.ai_invoked /\ cycle.inp.reply.kind = "not_list"

\* C19: a reply that is valid JSON but not a list makes analyze_dns_batch
\* return None, and the cycle that received it still writes the watermark.
C19_NonListReplyIsFailure ==
    ReplyNotAList =>
        /\ ~cycle.ai_analysis_results.some
        /\ pc = "done"
        /\ cycle.save_attempts = <<>>
        /\ WroteWatermark(SetMax(NewTimes))

C19_Witness ==
    /\ ReplyNotAList
    /\ cycle.file_before = FileAbsent
    /\ cycle.written = <<1>> /\ last_check_file = FileValid(1)

\* ---- C18 (corrected) -----------------------------------------------------
EmptyCall == adapter.pc = "returned" /\ adapter.dns_query_list = <<>>

\* C18 as claimed: called with an empty query list, analyze_dns_batch
\* returns an empty list and does not call the service, whether or not the
\* service is configured.
C18_EmptyInputGivesEmptyList ==
    EmptyCall => adapter.result = Some(<<>>) /\ ~adapter.invoked

\* C18 amended: called with an empty query list, analyze_dns_batch never
\* calls the service; it returns an empty list when the model is configured
\* and None when it is not.
C18_EmptyInputNeverInvokes ==
    EmptyCall =>
        /\ ~adapter.invoked
        /\ model => adapter.result = Some(<<>>)
        /\ ~model => adapter.result = None

C18_Witness ==
    /\ EmptyCall
    /\ model /\ ~adapter.raises
    /\ TextOf(adapter.layout) = <<"[", "1", "]">>
    /\ adapter.result = Some(<<>>) /\ ~adapter.invoked

\* ---- C20 (code_bug) ------------------------------------------------------
\* the reply is a JSON text between an opening fence line and a closing
\* fence line, and the service was asked
FencedReply ==
    /\ adapter.pc = "returned" /\ adapter.invoked /\ ~adapter.raises
    /\ adapter.layout.open = Fence /\ adapter.layout.break1 = <<"\n">>
    /\ adapter.layout.break2 = <<"\n">> /\ adapter.layout.close = Fence
    /\ json_loads(adapter.layout.payload).kind # "not_json"

\* what the call returns for the same JSON text without the fence
UnfencedResult ==
    LET reply == json_loads(adapter.layout.payload)
    IN  IF reply.kind = "list" THEN Some(reply.items) ELSE None

\* C20: a reply that is valid JSON between an opening fence line (three
\* backticks and any language tag, or none) and a closing fence line is
\* parsed to the same result as the JSON without the fence.
C20_FencedReplyParsesAsUnfenced ==
    FencedReply => adapter.result = UnfencedResult

\* What the code does guarantee: the same for a fence without a tag and for
\* a fence with the tag json.
FencedJsonReplyParsesAsUnfenced ==
    (FencedReply /\ adapter.layout.tag \in {<<>>, <<"j", "s", "o", "n">>})
        => adapter.result = UnfencedResult

\* ---- C21 (confirmed) -----------------------------------------------------
\* the cycle ended before the classifier step
EndedBeforeClassifier == LoginFailed \/ FetchFailed \/ EmptyFetch \/ NothingNewer

\* C21: in a cycle the classifier adapter is entered at most once and the
\* external service is invoked at most once (a failed call is not retried);
\* neither happens on the login-failure, fetch-failure, empty-fetch and
\* no-new-work paths.
C21_ClassifierInvokedAtMostOnce ==
    /\ CallCount("analyze_dns_batch") <= 1
    /\ CallCount("generate_content") <= 1
    /\ EndedBeforeClassifier =>
           ~WasCalled("analyze_dns_batch") /\ ~WasCalled("generate_content")

\* the service was invoked, its call raised, and it was not invoked again
C21_Witness ==
    /\ ClassifierFailed
    /\ cycle.ai_invoked /\ cycle.inp.reply.kind = "raise"
    /\ CallCount("generate_content") = 1
    /\ pc = "done"

\* ---- C22 (corrected) -----------------------------------------------------
\* the process is past its startup check
Started == pc # "start"
CycleStarted == cycle.path # "none"

\* C22 as claimed: when the log-source URL, the log-source credential or the
\* classifier credential is absent at startup, the process exits with a
\* failure status and never starts an analysis cycle.
C22_MissingConfigurationExits ==
    Started /\ (~config.PIHOLE_BASE_URL \/ ~config.PIHOLE_PASSWORD
                \/ ~config.GOOGLE_API_KEY) =>
        pc = "exit1" /\ ~CycleStarted

\* C22 amended: the process exits with a failure status, without starting a
\* cycle, exactly when the log-source URL or the log-source credential is
\* absent; when only the classifier credential is absent the cycle starts,
\* with the classifier unconfigured and the external service never invoked.
C22_MissingLogSourceConfigurationExits ==
    Started =>
        /\ (~config.PIHOLE_BASE_URL \/ ~config.PIHOLE_PASSWORD) <=> pc = "exit1"
        /\ pc = "exit1" => cycle = NoCycle /\ findings = <<>> /\ outbox = <<>>
        /\ pc # "exit1" => CycleStarted
        /\ pc # "exit1" /\ ~config.GOOGLE_API_KEY =>
               ~model /\ ~WasCalled("generate_content")

\* the credential alone is absent and the process has exited
C22_Witness ==
    /\ config.PIHOLE_BASE_URL /\ ~config.PIHOLE_PASSWORD /\ config.GOOGLE_API_KEY
    /\ pc = "exit1" /\ ~CycleStarted

\* the classifier credential alone is absent and a cycle ran to the
\* classifier step
MissingClassifierKeyCycleRan ==
    /\ config.PIHOLE_BASE_URL /\ config.PIHOLE_PASSWORD /\ ~config.GOOGLE_API_KEY
    /\ pc = "done" /\ WasCalled("analyze_dns_batch")

\* ---- C23 (code_bug) ------------------------------------------------------
\* the classifier's reply parsed as a JSON list
ReplyIsList ==
    Ended /\ cycle.ai_invoked /\ cycle.ai_analysis_results.some

\* an element the reconciliation cannot handle: one that is not an object,
\* or one of a new domain whose categories value is truthy and is not a list
\* of strings
MalformedItem(item) ==
    \/ ~item.is_dict
    \/ /\ item.domain \in NewDomains
       /\ JoinRaises(item.categories)

\* C23: for every classifier reply that parses as a JSON list (elements that
\* are not objects, categories missing, not a list, or holding non-string
\* labels included) the cycle does not end with an uncaught error and
\* reaches the watermark write.
C23_MalformedItemsAreSkipped ==
    ReplyIsList =>
        /\ pc = "done"
        /\ cycle.written # <<>>

\* What the code does guarantee: a list reply without such an element never
\* raises, and a missing or empty categories value is skipped.
WellFormedListNeverRaises ==
    (ReplyIsList /\ \A i \in 1..Len(Results) : ~MalformedItem(Results[i])) =>
        /\ pc = "done"
        /\ cycle.written # <<>>

\* a reply that holds an element that is not an object ends the cycle with
\* an uncaught error before the watermark write
NonObjectItemRaised ==
    /\ ReplyIsList
    /\ \E i \in 1..Len(Results) : ~Results[i].is_dict
    /\ pc = "crashed" /\ cycle.written = <<>>

\* ---- C24 (code_bug) ------------------------------------------------------
\* the cycle logged in and has ended
LoggedIn == Ended /\ WasCalled("authenticate") /\ cycle.sid

\* C24: every cycle that logs in successfully logs out (deletes its session)
\* before it ends, on every exit path: fetch failure, empty fetch, no new
\* work, normal completion.
C24_EveryLoginLogsOut ==
    LoggedIn =>
        /\ WasCalled("delete_session")
        /\ ~cycle.session_open

\* What the code does: no cycle ever logs out; the session a login opened is
\* still open when the cycle ends, whatever the exit path.
SessionLeftOpen ==
    LoggedIn =>
        /\ ~WasCalled("delete_session")
        /\ cycle.session_open

\* a cycle that logged in and completed normally, its session still open
NormalCycleLeavesSessionOpen ==
    /\ LoggedIn /\ cycle.path = "normal" /\ pc = "done"
    /\ cycle.session_open

\* ---- C25 (code_bug) ------------------------------------------------------
\* the domains whose Finding this cycle persisted
PersistedDomains ==
    {cycle.save_attempts[i].finding.domain :
         i \in {j \in 1..Len(cycle.save_attempts) : cycle.save_attempts[j].success}}

\* C25: during reconciliation a domain is added to the cycle's processed set
\* only when its Finding was persisted successfully; a domain whose save
\* failed, or that produced no Finding, is not marked processed.
C25_ProcessedOnlyIfPersisted ==
    Ended => cycle.processed_domains = PersistedDomains

\* What the code does: a domain is marked processed exactly when a save was
\* attempted for it, successful or not; a domain without a Finding (absent
\* from the reply, or with empty categories) is not marked.
ProcessedIffSaveAttempted ==
    Ended => cycle.processed_domains = AttemptedDomains

\* the save of a domain failed and the domain is in the processed set
FailedSaveMarkedProcessed ==
    /\ pc = "done"
    /\ \E i \in 1..Len(cycle.save_attempts) :
           /\ ~cycle.save_attempts[i].success
           /\ cycle.save_attempts[i].finding.domain \in cycle.processed_domains

\* ---- C26 (code_bug) ------------------------------------------------------
\* the schema initialization of this cycle failed
InitializationFailed ==
    Ended /\ WasCalled("initialize_database") /\ cycle.inp.init_db # "ok"

\* C26: a failure of the storage schema initialization (the database cannot
\* be opened, or the table cannot be created) does not raise out of
\* initialize_database and does not end the cycle with an uncaught error:
\* the cycle goes on to the login.
C26_InitializationFailureIsContained ==
    InitializationFailed =>
        /\ cycle.path # "init_db_raised"
        /\ WasCalled("authenticate")

\* What the code does guarantee: a directory that cannot be created and an
\* SQL statement that fails are logged and the cycle goes on to the login.
InitializationFailureContainedUnlessOpenFails ==
    (InitializationFailed /\ cycle.inp.init_db # "connect_error") =>
        /\ cycle.path # "init_db_raised"
        /\ WasCalled("authenticate")

\* the database could not be opened: the cycle ended with an uncaught error
\* after its first call
OpenFailureRaised ==
    /\ cycle.inp.init_db = "connect_error"
    /\ pc = "crashed" /\ cycle.path = "init_db_raised"
    /\ cycle.calls = <<"initialize_database">>

\* ---- C27 (code_bug) ------------------------------------------------------
\* C27: when two cycle invocations overlap in time (each reads the
\* watermark, processes the batch it fetched, then writes), the stored
\* watermark never decreases.
C27_OverlappingCyclesKeepWatermark ==
    [][WatermarkValue(last_check_file') >= WatermarkValue(last_check_file)]_vars

\* run i is between its read of the watermark and the end of its cycle
InFlight(i) == invocations[i].at \in {"read", "fetched"}

\* the read-modify-write of the watermark is serialized or locked: no run
\* reads the watermark while another one is between its read and its write
ReadModifyWriteIsExclusive ==
    \A i, j \in Invocations : i # j => ~(InFlight(i) /\ InFlight(j))

\* both runs have ended, each wrote the maximum of the batch it fetched, and
\* the record holds the smaller of the two values
StaleWriteWon ==
    /\ \A i \in Invocations :
           invocations[i].at = "ended" /\ Len(invocations[i].st.cycle.written) = 1
    /\ \E i, j \in Invocations :
           /\ invocations[j].st.cycle.written[1] > invocations[i].st.cycle.written[1]
           /\ last_check_file = FileValid(invocations[i].st.cycle.written[1])

\* ---- C28 (confirmed) -----------------------------------------------------
\* q is one of the fetched queries newer than the watermark the cycle read
IsNewQuery(q) == \E i \in 1..Len(NewFetched) : NewFetched[i] = q

\* C28: the new queries of a cycle are exactly the fetched queries whose
\* timestamp is strictly greater than the watermark read at the start of the
\* cycle, in fetch order; a query whose timestamp equals the watermark (or is
\* older) is neither handed to the classifier nor stored.
C28_NewQueriesAreStrictlyNewer ==
    FetchOk =>
        /\ cycle.new_queries = NewFetched
        /\ \A i \in 1..Len(cycle.queries_for_ai) : IsNewQuery(cycle.queries_for_ai[i])
        /\ \A i \in 1..Len(cycle.save_attempts) :
               LET f == cycle.save_attempts[i].finding
               IN  /\ f.query_timestamp > cycle.last_check_time
                   /\ IsNewQuery([timestamp |-> f.query_timestamp, domain |-> f.domain,
                                  client_ip |-> f.client_ip])
        /\ \A i \in 1..Len(findings) : findings[i].query_timestamp > cycle.last_check_time

\* the batch holds a query at the watermark and a newer one; the newer one
\* alone was classified and stored
C28_Witness ==
    /\ pc = "done" /\ FetchOk /\ cycle.last_check_time > 0
    /\ \E i \in 1..Len(Fetched) : Fetched[i].timestamp = cycle.last_check_time
    /\ Len(cycle.new_queries) = 1 /\ Len(Fetched) = 2
    /\ cycle.queries_for_ai = cycle.new_queries
    /\ Len(findings) = 1

\* ---- C29 (corrected) -----------------------------------------------------
\* the place of a collaborator call in the order of the steps
StepOf(op) ==
    CASE op = "initialize_database" -> 0
      [] op = "authenticate" -> 1
      [] op = "load_last_check_timestamp" -> 2
      [] op = "get_recent_queries" -> 3
      [] op = "analyze_dns_batch" -> 4
      [] op = "generate_content" -> 5
      [] op = "save_finding" -> 6
      [] op = "send_notification_email" -> 7
      [] op = "save_last_check_timestamp" -> 8

\* the calls of the cycle follow the order of the steps: a call of a later
\* step never precedes a call of an earlier one, and only save_finding is
\* called more than once
CallsInStepOrder ==
    \A i, j \in 1..Len(cycle.calls) :
        i < j =>
            \/ StepOf(cycle.calls[i]) < StepOf(cycle.calls[j])
            \/ cycle.calls[i] = "save_finding" /\ cycle.calls[j] = "save_finding"

\* the login precedes every collaborator call in Others
LoginPrecedes(Others) ==
    \A i \in 1..Len(cycle.calls) :
        cycle.calls[i] \in Others =>
            \E j \in 1..(i - 1) : cycle.calls[j] = "authenticate"

CollaboratorCalls ==
    {"initialize_database", "authenticate", "load_last_check_timestamp",
     "get_recent_queries", "analyze_dns_batch", "generate_content", "save_finding",
     "send_notification_email", "save_last_check_timestamp"}

\* C29 as claimed: within a cycle the steps occur strictly in the order
\* login, fetch, filter, classify, persist Findings, send digest, write
\* watermark, and the login precedes every other collaborator call.
C29_LoginThenStepsInOrder ==
    /\ CallsInStepOrder
    /\ LoginPrecedes(CollaboratorCalls \ {"authenticate"})

\* C29 amended: the collaborator calls of a cycle occur in the order
\* initialize storage, login, read watermark, fetch, classify, persist
\* Findings, send digest, write watermark: the storage initialization is the
\* first call and the login precedes every other one, no Finding is stored
\* before the classifier call has returned, the digest is sent only after
\* every Finding was attempted, and the watermark is written only after the
\* digest attempt.
C29_StorageInitThenLoginThenStepsInOrder ==
    /\ CallsInStepOrder
    /\ cycle.calls # <<>> => cycle.calls[1] = "initialize_database"
    /\ LoginPrecedes(CollaboratorCalls \ {"authenticate", "initialize_database"})
    /\ \A i \in 1..Len(cycle.calls) :
           cycle.calls[i] = "save_finding" =>
               /\ \E j \in 1..(i - 1) : cycle.calls[j] = "analyze_dns_batch"
               /\ \A j \in (i + 1)..Len(cycle.calls) :
                      cycle.calls[j] \in {"save_finding", "send_notification_email",
                                          "save_last_check_timestamp"}
    /\ WasCalled("send_notification_email") =>
           \A d \in NewDomains :
               (ItemsFor(d) # {} /\ CategoriesTruthy(ResultFor(d).categories)) =>
                   d \in AttemptedDomains
    /\ WasCalled("save_last_check_timestamp") =>
           cycle.calls[Len(cycle.calls)] = "save_last_check_timestamp"

\* a cycle that made every kind of call: two Findings stored, then the
\* digest, then the watermark
C29_Witness ==
    /\ pc = "done"
    /\ cycle.calls = Prologue \o <<"analyze_dns_batch", "generate_content",
                                  "save_finding", "save_finding",
                                  "send_notification_email",
                                  "save_last_check_timestamp">>

\* ---- C30 (confirmed) -----------------------------------------------------
\* C30: in every cycle the watermark record is read at most once and written
\* at most once, and the write, if any, is the last collaborator action of
\* the cycle.
C30_WatermarkReadOnceWrittenOnceLast ==
    /\ CallCount("load_last_check_timestamp") <= 1
    /\ CallCount("save_last_check_timestamp") <= 1
    /\ Len(cycle.written) = CallCount("save_last_check_timestamp")
    /\ \A i \in 1..Len(cycle.calls) :
           cycle.calls[i] = "save_last_check_timestamp" => i = Len(cycle.calls)
    /\ \A i \in 1..Len(cycle.calls) :
           cycle.calls[i] = "save_last_check_timestamp" =>
               \E j \in 1..(i - 1) : cycle.calls[j] = "load_last_check_timestamp"

\* a normal cycle: the watermark read once, a Finding stored, the digest
\* attempted, and the one write at the end
C30_Witness ==
    /\ pc = "done" /\ cycle.path = "normal"
    /\ CallCount("load_last_check_timestamp") = 1
    /\ WasCalled("save_finding") /\ WasCalled("send_notification_email")
    /\ cycle.calls[Len(cycle.calls)] = "save_last_check_timestamp"
    /\ CallCount("save_last_check_timestamp") = 1

\* ---- C31 (confirmed) -----------------------------------------------------
\* the reply as it would be without its items that have no domain
ResultsWithDomain == SelectSeq(Results, LAMBDA item : item.domain # NoDomain)

\* the reconciliation of the cycle's domain index against the results rs
ReconciliationOf(rs) ==
    ReconcileLoop([saves |-> <<>>, rows |-> <<>>, notify |-> <<>>,
                   processed |-> {}, raised |-> FALSE],
                  cycle.domain_query_map, rs, config, db_schema,
                  cycle.inp.save_fail)

\* the reply is a non-empty list of objects and the reconciliation has run
Reconciled ==
    /\ ReplyIsList /\ Results # <<>>
    /\ \A i \in 1..Len(Results) : Results[i].is_dict

\* C31: a result item without a domain key is dropped: no Finding and no
\* notification candidate comes from it, and the other items are processed
\* as if it were absent (same saves, same rows, same candidates, same
\* outcome); an item without a reason is stored with the placeholder reason.
C31_ItemWithoutDomainIsDropped ==
    Reconciled =>
        /\ LET expected == ReconciliationOf(ResultsWithDomain)
           IN  /\ cycle.save_attempts = expected.saves
               /\ findings = expected.rows
               /\ cycle.findings_for_notification = expected.notify
               /\ (pc = "crashed") <=> expected.raised
        /\ \A i \in 1..Len(cycle.save_attempts) :
               LET f == cycle.save_attempts[i].finding
               IN  /\ f.domain # NoDomain
                   /\ f.reason = IF ResultFor(f.domain).reason = NoReason
                                 THEN DefaultReason
                                 ELSE ResultFor(f.domain).reason

\* the reply holds an item without a domain and an item of b.com without a
\* reason: one Finding, of b.com, with the placeholder reason
C31_Witness ==
    /\ Reconciled /\ pc = "done"
    /\ Len(Results) = 2
    /\ \E i \in 1..2 : Results[i].domain = NoDomain
    /\ \E i \in 1..2 : Results[i].domain = "b.com" /\ Results[i].reason = NoReason
    /\ Len(findings) = 1
    /\ findings[1].domain = "b.com" /\ findings[1].reason = DefaultReason

\* ---- C32 (confirmed) -----------------------------------------------------
\* the cycle read a watermark record that is missing, not a valid float, or
\* unreadable
WatermarkUnusable ==
    /\ Ended /\ WasCalled("load_last_check_timestamp")
    /\ \/ cycle.file_before.kind \in {"absent", "malformed"}
       \/ cycle.inp.read = "error"

\* C32: when the watermark record is missing, unreadable or not a valid
\* float, the cycle reads the watermark as 0.0 and goes on to the fetch;
\* every fetched query (each has a positive timestamp) is then a new query.
C32_UnusableWatermarkReadsAsZero ==
    WatermarkUnusable =>
        /\ cycle.last_check_time = 0
        /\ WasCalled("get_recent_queries")
        /\ FetchOk => /\ \A i \in 1..Len(Fetched) : Fetched[i].timestamp > 0
                      /\ cycle.new_queries = Fetched

\* the record was malformed; both fetched queries were new, one was stored
\* and the cycle completed with a watermark write
C32_Witness ==
    /\ WatermarkUnusable /\ cycle.file_before = FileMalformed
    /\ pc = "done" /\ cycle.path = "normal"
    /\ Len(Fetched) = 2 /\ cycle.new_queries = Fetched
    /\ Len(findings) = 1 /\ cycle.written # <<>>

\* the record was well formed and could not be read
UnreadableWatermarkReadAsZero ==
    /\ WatermarkUnusable /\ cycle.file_before.kind = "valid"
    /\ cycle.inp.read = "error" /\ cycle.last_check_time = 0
    /\ pc = "done" /\ cycle.new_queries = Fetched /\ Fetched # <<>>

\* ---- C33 (code_bug) ------------------------------------------------------
\* the second of two runs has ended
SecondRunEnded == previous.path # "none" /\ Ended

\* the Findings the first run stored
PreviousFindings ==
    LET ok == SelectSeq(previous.save_attempts, LAMBDA a : a.success)
    IN  [i \in 1..Len(ok) |-> ok[i].finding]

\* the first run completed with a successful watermark write and the second
\* run fetched the same batch
RepeatedAfterWrite ==
    /\ SecondRunEnded
    /\ previous.written # <<>> /\ previous.inp.write = "ok"
    /\ FetchOk /\ cycle.inp.fetch = previous.inp.fetch

\* the second run found nothing new and changed nothing
NothingNewNothingChanged ==
    /\ cycle.new_queries = <<>>
    /\ ~WasCalled("analyze_dns_batch")
    /\ cycle.save_attempts = <<>> /\ findings = PreviousFindings
    /\ cycle.email_attempts = <<>>
    /\ WatermarkValue(last_check_file) = previous.written[1]

\* C33: if a cycle completes with a successful watermark write and the next
\* cycle fetches the same batch, the second cycle finds no new queries: no
\* classifier call, no Finding stored, no notification sent, the watermark
\* value unchanged.
C33_SameBatchIsNotProcessedAgain ==
    RepeatedAfterWrite => NothingNewNothingChanged

\* What the code does guarantee: the same holds when the second cycle's read
\* of the watermark record succeeds and its write does not truncate it.
SameBatchNotProcessedAgainIfReadAndWriteBehave ==
    (RepeatedAfterWrite /\ cycle.inp.read = "ok" /\ cycle.inp.write # "truncated")
        => NothingNewNothingChanged

\* the second run could not read the record the first one wrote: it
\* classified the batch again and stored its Finding a second time
UnreadableWatermarkRepeatsBatch ==
    /\ RepeatedAfterWrite /\ cycle.inp.read = "error"
    /\ WasCalled("analyze_dns_batch")
    /\ Len(PreviousFindings) = 1
    /\ findings = PreviousFindings \o PreviousFindings

\* the second run found nothing new, as claimed, on a good read and write
SameBatchSkipped ==
    /\ RepeatedAfterWrite /\ cycle.inp.read = "ok" /\ cycle.inp.write = "ok"
    /\ Len(PreviousFindings) = 1 /\ cycle.path = "no_new_work"
    /\ NothingNewNothingChanged

\* ---- C34 (code_bug) ------------------------------------------------------
\* the first run's write of the watermark failed, and the second run fetched
\* the same batch
RepeatedAfterFailedWrite ==
    /\ SecondRunEnded
    /\ previous.written # <<>> /\ previous.inp.write # "ok"
    /\ FetchOk /\ cycle.inp.fetch = previous.inp.fetch

\* the Findings the first run handed to storage, stored or not
PreviousAttempts ==
    [i \in 1..Len(previous.save_attempts) |-> previous.save_attempts[i].finding]

\* every Finding the first run stored is in the table twice
StoredTwice ==
    \A i \in 1..Len(PreviousFindings) :
        Cardinality({j \in 1..Len(findings) : findings[j] = PreviousFindings[i]}) >= 2

\* C34: if the watermark write at the end of a cycle fails, the failure is
\* swallowed and the cycle still ends normally, the stored watermark keeps
\* its previous value, and the Findings stored in that cycle stay stored, so
\* that a following cycle over the same batch stores them again.
C34_FailedWriteKeepsWatermark ==
    RepeatedAfterFailedWrite =>
        /\ previous.path \in {"normal", "no_new_work"}
        /\ WatermarkValue(cycle.file_before) = WatermarkValue(previous.file_before)
        /\ StoredTwice

\* What the code does guarantee: when open() itself failed the record is
\* untouched, and a second run that reads it sees the same new queries,
\* hands the same Findings to storage and stores every Finding of the first
\* run again.
FailedOpenKeepsWatermark ==
    (RepeatedAfterFailedWrite /\ previous.inp.write = "open_failed") =>
        /\ previous.path \in {"normal", "no_new_work"}
        /\ cycle.file_before = previous.file_before
        /\ cycle.inp.read = "ok" =>
               /\ cycle.new_queries = previous.new_queries
               /\ PreviousAttempts =
                      [i \in 1..Len(cycle.save_attempts) |->
                           cycle.save_attempts[i].finding]
               /\ StoredTwice

\* the first run wrote over a valid record, the write truncated the file and
\* raised: the stored value fell to 0.0
TruncatingWriteLostWatermark ==
    /\ RepeatedAfterFailedWrite /\ previous.inp.write = "truncated"
    /\ previous.file_before.kind = "valid"
    /\ cycle.file_before = FileMalformed
    /\ Len(PreviousFindings) = 1

\* open() failed in the first run; the second run stored the same Finding again
FailedOpenStoredAgain ==
    /\ RepeatedAfterFailedWrite /\ previous.inp.write = "open_failed"
    /\ cycle.inp.read = "ok" /\ pc = "done"
    /\ Len(PreviousFindings) = 1
    /\ findings = PreviousFindings \o PreviousFindings

====
